---- MODULE Spec2Model ----
(***************************************************************************)
(* A model of the hydra-news cryptographic core (c/src): the logical       *)
(* entanglement engine, the Falcon and Kyber primitives, the quantum ZKP   *)
(* engine and the crypto adapter that composes them.                       *)
(*                                                                         *)
(* Byte strings are sequences of numbers in 0..255; NULL pointers to byte  *)
(* buffers are the empty sequence.  OpenSSL's SHA-256 and HMAC are not     *)
(* part of the repository: they are modelled by a polynomial hash that is  *)
(* expanded to the 32 bytes of a digest (SHA256, HMAC_SHA256 below).  Two  *)
(* inputs of the same length that differ in one byte never collide under   *)
(* it, so a digest comparison in the model can tell them apart whenever    *)
(* SHA-256 can.                                                            *)
(*                                                                         *)
(* Of the failures of the environment, the model has malloc and realloc    *)
(* in the entanglement engine, RAND_poll in the init functions and the     *)
(* malloc of crypto_verify_zkproof; RAND_bytes and the EVP_* calls are     *)
(* taken to succeed.                                                       *)
(***************************************************************************)
EXTENDS Integers, Sequences, FiniteSets, TLC

(***************************************************************************)
(* Bounds of the model.                                                    *)
(***************************************************************************)
MaxNodes == 2
MaxDeps == 2
MaxGraphNodes == 2
MaxSteps == 7
MaxSeeds == 2
MaxKeys == 1
MaxTime == 2
MaxTtl == 1
MaxCryptoSteps == 4
MaxSysSteps == 3
MaxStoreSteps == 7
MaxStoreKeys == 2
MaxIdBufs == 2

(***************************************************************************)
(* The state.                                                              *)
(***************************************************************************)
VARIABLES
    \* logical_entanglement.c
    le_initialized,  \* static bool is_initialized
    nodes,           \* the heap of entanglement_node_t, by node id
    graph,           \* the one entanglement_graph_t the model keeps
    le_last,         \* the last call: its name and its result
    scenario,        \* how far the tamper scenario has got
    le_steps,        \* calls made so far (bounded by MaxSteps)
    \* falcon.c, kyber.c, quantum_zkp.c, crypto_adapter.c
    falcon_initialized,  \* falcon.c: static bool is_initialized
    kyber_initialized,   \* kyber.c: static bool is_initialized
    qzkp_initialized,    \* quantum_zkp.c: static bool is_initialized
    adapter_state,       \* crypto_adapter.c: static struct adapter_state
    now,                 \* what time(NULL) returns
    falcon_kp,           \* a caller's falcon_keypair_t
    kyber_kp,            \* a caller's kyber_keypair_t
    keys,                \* the caller's crypto_key_t values, by slot
    sig_out,             \* the caller's signature buffer and what it signs
    kem_out,             \* the caller's ciphertext and shared secret buffers
    zk_out,              \* the caller's qzkp_proof_t and what it proves
    cr_last,             \* the last call of the crypto layer and its result
    cr_steps,            \* calls made so far (bounded by MaxCryptoSteps)
    \* two threads inside le_calculate_node_hash
    par_started,     \* the nodes are built and both threads are running
    par_deps,        \* deps and dep_count of each node the threads work on
    par_hash,        \* hash of each of those nodes: the pointer and its buffer
    par_stack,       \* each thread's frames of le_calculate_node_hash
    par_done,        \* whether each thread's outermost call has returned
    par_ret,         \* what it returned
    par_bad,         \* the memory errors made so far
    par_crashed,     \* the process has died on a write through NULL
    \* hydra_cgo.c and calls made with raw arguments
    hydra_initialized,  \* hydra_cgo.c: static bool hydra_initialized
    sys_last,           \* the last such call: its arguments and what it did
    sys_steps,          \* calls made so far (bounded by MaxSysSteps)
    \* key_management.c
    g_key_storage,      \* static key_storage_t g_key_storage
    km_rand,            \* how many times RAND_bytes has filled a key id
    id_bufs             \* the caller's 64-byte buffers for key ids, by slot

parVars ==
    <<par_started, par_deps, par_hash, par_stack, par_done, par_ret, par_bad, par_crashed>>
leCore == <<le_initialized, nodes, graph, le_last, scenario, le_steps>>
kmVars == <<g_key_storage, km_rand, id_bufs>>
sysVars == <<hydra_initialized, sys_last, sys_steps, kmVars>>
\* the state outside the crypto layer
leVars == <<leCore, parVars, sysVars>>
initFlags == <<falcon_initialized, kyber_initialized, qzkp_initialized, adapter_state>>
crVars ==
    <<initFlags, now, falcon_kp, kyber_kp, keys, sig_out, kem_out, zk_out, cr_last, cr_steps>>
vars == <<leCore, crVars, parVars, sysVars>>

(***************************************************************************)
(* Bytes and digests.                                                      *)
(***************************************************************************)
SHA256_DIGEST_LENGTH == 32

NULL == <<>>

RECURSIVE PowMod(_, _, _)
PowMod(b, e, m) ==
    IF e = 0 THEN 1
    ELSE LET h == PowMod(b, e \div 2, m)
             sq == (h * h) % m
         IN IF e % 2 = 1 THEN (sq * b) % m ELSE sq

RECURSIVE PolyHash(_, _, _)
PolyHash(s, lo, hi) ==
    IF lo > hi THEN 0
    ELSE IF lo = hi THEN s[lo] + 1
    ELSE LET mid == (lo + hi) \div 2
         IN (PolyHash(s, lo, mid) * PowMod(257, hi - mid, 32749)
             + PolyHash(s, mid + 1, hi)) % 32749

\* the 32 bytes of a digest, from the accumulator of the polynomial hash
DigestBytes(acc) ==
    [i \in 1..SHA256_DIGEST_LENGTH |->
        IF i = 1 THEN acc % 256
        ELSE IF i = 2 THEN acc \div 256
        ELSE (acc * i + 7 * i) % 256]

\* SHA256(in, len, out): the digest of a byte string, always 32 bytes.
SHA256(s) == DigestBytes((PolyHash(s, 1, Len(s)) + 263 * (Len(s) + 1)) % 32749)

RECURSIVE Concat(_)
Concat(ss) == IF ss = <<>> THEN <<>> ELSE Head(ss) \o Concat(Tail(ss))

(***************************************************************************)
(* Logical entanglement engine (logical_entanglement.c).                   *)
(***************************************************************************)
NodeIds == 1..MaxNodes

\* Payloads handed to le_create_node: "head" and "by".
Payloads == { <<104, 101, 97, 100>>, <<98, 121>> }

\* The contents malloc may hand out in a buffer that was not written yet.
UninitFills == {0, 170}
UninitBuffer(fill) == [i \in 1..SHA256_DIGEST_LENGTH |-> fill]

NoNode == [alloc |-> FALSE, data |-> <<>>, hash |-> NULL, deps |-> <<>>]
NoGraph == [alloc |-> FALSE, nodes |-> <<>>, root_hash |-> NULL]

Last(op, rc) == [op |-> op, rc |-> rc, node |-> 0]

\* An allocation plan: whether one allocation of the call fails, and which.
AllocPlans == {[fail |-> FALSE, at |-> 0]} \cup [fail : {TRUE}, at : 0..1]
AllocFails(plan, count) == plan.fail /\ plan.at = count

\* every call of the engine counts against the budget of the run
LEStep ==
    le_steps < MaxSteps /\ le_steps' = le_steps + 1 /\ UNCHANGED <<crVars, parVars, sysVars>>

LEInit ==
    /\ le_initialized = FALSE
    /\ nodes = [n \in NodeIds |-> NoNode]
    /\ graph = NoGraph
    /\ le_last = Last("none", 0)
    /\ scenario = "idle"
    /\ le_steps = 0

\* le_init
le_init ==
    /\ le_initialized' = TRUE
    /\ le_last' = Last("le_init", 0)
    /\ scenario' = "idle"
    /\ UNCHANGED <<nodes, graph>>
    /\ LEStep

\* le_cleanup
le_cleanup ==
    /\ le_initialized' = FALSE
    /\ le_last' = Last("le_cleanup", 0)
    /\ scenario' = "idle"
    /\ UNCHANGED <<nodes, graph>>
    /\ LEStep

FreeIds == {n \in NodeIds : ~nodes[n].alloc}
Min(S) == CHOOSE x \in S : \A y \in S : x <= y

\* le_create_node(data, data_size): NULL (rc -1 here) when uninitialized or
\* an allocation fails; data is non-empty for every payload of the model.
le_create_node(data, plan) ==
    /\ FreeIds # {}
    /\ scenario' = "idle"
    /\ IF ~le_initialized \/ data = <<>> \/ plan.fail
       THEN /\ le_last' = Last("le_create_node", -1)
            /\ UNCHANGED <<le_initialized, nodes, graph>>
       ELSE LET n == Min(FreeIds)
            IN /\ nodes' = [nodes EXCEPT ![n] =
                     [alloc |-> TRUE, data |-> data, hash |-> NULL, deps |-> <<>>]]
               /\ le_last' = Last("le_create_node", 0)
               /\ UNCHANGED <<le_initialized, graph>>
    /\ LEStep

\* le_add_dependency(node, dependency)
AddDependencyResult(ns, init, n, d, plan) ==
    IF ~init THEN [nodes |-> ns, rc |-> -1]
    ELSE IF plan.fail THEN [nodes |-> ns, rc |-> -2]
    ELSE [nodes |-> [ns EXCEPT ![n].deps = Append(@, d)], rc |-> 0]

le_add_dependency(n, d, plan) ==
    /\ nodes[n].alloc /\ nodes[d].alloc
    /\ Len(nodes[n].deps) < MaxDeps
    /\ LET r == AddDependencyResult(nodes, le_initialized, n, d, plan)
       IN /\ nodes' = r.nodes
          /\ le_last' = Last("le_add_dependency", r.rc)
    /\ scenario' = "idle"
    /\ UNCHANGED <<le_initialized, graph>>
    /\ LEStep

(***************************************************************************)
(* le_calculate_node_hash.  A call works on the node heap ns and counts    *)
(* the allocations made so far (count) against the allocation plan; fill   *)
(* is what a freshly allocated, unwritten digest buffer holds.  The result *)
(* is the heap after the call, the return code and the allocation count.   *)
(***************************************************************************)
CalcState(ns, rc, count) == [nodes |-> ns, rc |-> rc, count |-> count]

DepHashes(ns, n) == Concat([i \in 1..Len(ns[n].deps) |-> ns[ns[n].deps[i]].hash])

\* H(data || hash of deps[1] || ... ), read from the heap as it is now
NodeDigest(ns, n) == SHA256(ns[n].data \o DepHashes(ns, n))

RECURSIVE CalcNodeHash(_, _, _, _, _)
RECURSIVE CalcDeps(_, _, _, _, _)

\* a loop over deps that computes no dependency's digest
CalcDeps_NoRecursion(st, n, i, plan, fill) == st

\* lines 158-166: the loop over deps from index i on
CalcDeps(st, n, i, plan, fill) ==
    IF i > Len(st.nodes[n].deps) THEN st
    ELSE LET d == st.nodes[n].deps[i]
         IN IF st.nodes[d].hash = NULL
            THEN LET r == CalcNodeHash(st.nodes, d, st.count, plan, fill)
                 IN IF r.rc # 0 THEN r ELSE CalcDeps(r, n, i + 1, plan, fill)
            ELSE CalcDeps(st, n, i + 1, plan, fill)

CalcNodeHash(ns, n, count, plan, fill) ==
    \* lines 137-148: free the old digest, allocate a new buffer
    IF AllocFails(plan, count)
    THEN CalcState([ns EXCEPT ![n].hash = NULL], -2, count + 1)
    ELSE LET ns1 == [ns EXCEPT ![n].hash = UninitBuffer(fill)]
         IN IF Len(ns1[n].deps) = 0
            THEN CalcState([ns1 EXCEPT ![n].hash = SHA256(ns1[n].data)], 0, count + 1)
            ELSE LET r == CalcDeps(CalcState(ns1, 0, count + 1), n, 1, plan, fill)
                 IN IF r.rc # 0 THEN r
                    ELSE CalcState([r.nodes EXCEPT ![n].hash = NodeDigest(r.nodes, n)],
                                   0, r.count)

le_calculate_node_hash(n, plan, fill) ==
    /\ nodes[n].alloc
    /\ scenario' = "idle"
    /\ IF ~le_initialized
       THEN /\ le_last' = [Last("le_calculate_node_hash", -1) EXCEPT !.node = n]
            /\ UNCHANGED <<le_initialized, nodes, graph>>
       ELSE LET r == CalcNodeHash(nodes, n, 0, plan, fill)
            IN /\ nodes' = r.nodes
               /\ le_last' = [Last("le_calculate_node_hash", r.rc) EXCEPT !.node = n]
               /\ UNCHANGED <<le_initialized, graph>>
    /\ LEStep

\* le_create_graph(nodes, node_count): the model keeps one graph
GraphNodeLists ==
    UNION {[1..k -> {n \in NodeIds : nodes[n].alloc}] : k \in 1..MaxGraphNodes}

le_create_graph(list, plan) ==
    /\ ~graph.alloc
    /\ scenario' = "idle"
    /\ IF ~le_initialized \/ plan.fail
       THEN /\ le_last' = Last("le_create_graph", -1)
            /\ UNCHANGED <<le_initialized, nodes, graph>>
       ELSE /\ graph' = [alloc |-> TRUE, nodes |-> list, root_hash |-> NULL]
            /\ le_last' = Last("le_create_graph", 0)
            /\ UNCHANGED <<le_initialized, nodes>>
    /\ LEStep

\* le_free_graph
le_free_graph ==
    /\ graph.alloc
    /\ graph' = NoGraph
    /\ le_last' = Last("le_free_graph", 0)
    /\ scenario' = "idle"
    /\ UNCHANGED <<le_initialized, nodes>>
    /\ LEStep

(***************************************************************************)
(* le_calculate_root_hash on a graph [nodes, root_hash]: the result is the *)
(* node heap, the graph's root_hash, the return code.                      *)
(***************************************************************************)
RootState(ns, root, rc, count) ==
    [nodes |-> ns, root_hash |-> root, rc |-> rc, count |-> count]

RECURSIVE CalcGraphNodes(_, _, _, _, _)
\* lines 209-217: the loop over the graph's nodes from index i on
CalcGraphNodes(st, list, i, plan, fill) ==
    IF i > Len(list) THEN st
    ELSE IF st.nodes[list[i]].hash = NULL
         THEN LET r == CalcNodeHash(st.nodes, list[i], st.count, plan, fill)
              IN IF r.rc # 0 THEN r ELSE CalcGraphNodes(r, list, i + 1, plan, fill)
         ELSE CalcGraphNodes(st, list, i + 1, plan, fill)

RootDigest(ns, list) == SHA256(Concat([i \in 1..Len(list) |-> ns[list[i]].hash]))

CalcRootHash(ns, list, plan, fill) ==
    \* lines 202-207: the old root hash is freed first
    LET r == CalcGraphNodes(CalcState(ns, 0, 0), list, 1, plan, fill)
    IN IF r.rc # 0 THEN RootState(r.nodes, NULL, r.rc, r.count)
       ELSE IF AllocFails(plan, r.count) THEN RootState(r.nodes, NULL, -2, r.count + 1)
       ELSE RootState(r.nodes, RootDigest(r.nodes, list), 0, r.count + 1)

le_calculate_root_hash(plan, fill) ==
    /\ graph.alloc
    /\ IF ~le_initialized
       THEN /\ le_last' = Last("le_calculate_root_hash", -1)
            /\ scenario' = "idle"
            /\ UNCHANGED <<le_initialized, nodes, graph>>
       ELSE LET r == CalcRootHash(nodes, graph.nodes, plan, fill)
            IN /\ nodes' = r.nodes
               /\ graph' = [graph EXCEPT !.root_hash = r.root_hash]
               /\ le_last' = Last("le_calculate_root_hash", r.rc)
               /\ scenario' = IF r.rc = 0 THEN "rooted" ELSE "idle"
               /\ UNCHANGED le_initialized
    /\ LEStep

\* le_verify_graph: rc 1 is true, rc 0 is false
VerifyGraphResult(ns, g, init, plan, fill) ==
    IF ~init \/ ~g.alloc \/ g.root_hash = NULL
    THEN [nodes |-> ns, match |-> FALSE]
    ELSE LET r == CalcRootHash(ns, g.nodes, plan, fill)
         IN [nodes |-> r.nodes, match |-> r.rc = 0 /\ r.root_hash = g.root_hash]

le_verify_graph(plan, fill) ==
    /\ graph.alloc
    /\ LET r == VerifyGraphResult(nodes, graph, le_initialized, plan, fill)
       IN /\ nodes' = r.nodes
          /\ le_last' = Last("le_verify_graph", IF r.match THEN 1 ELSE 0)
          /\ scenario' = IF scenario = "tampered" THEN "verified" ELSE "idle"
    /\ UNCHANGED <<le_initialized, graph>>
    /\ LEStep

\* The caller overwrites a node's payload in place, as the tampering test
\* does with memcpy(node1->data, ...): one bit of one byte is flipped.
FlipBit(b, k) == IF (b \div (2 ^ k)) % 2 = 1 THEN b - 2 ^ k ELSE b + 2 ^ k

TamperedBits == {0, 5}

TamperPayload(n, pos, bit) ==
    /\ nodes[n].alloc
    /\ scenario = "rooted"
    /\ pos \in 1..Len(nodes[n].data)
    /\ nodes' = [nodes EXCEPT ![n].data[pos] = FlipBit(@, bit)]
    /\ le_last' = Last("tamper", 0)
    /\ scenario' = IF \E i \in 1..Len(graph.nodes) : graph.nodes[i] = n
                   THEN "tampered" ELSE "idle"
    /\ UNCHANGED <<le_initialized, graph>>
    /\ LEStep

(***************************************************************************)
(* Bytes, random bytes and HMAC.                                           *)
(***************************************************************************)
RECURSIVE BitXor(_, _, _)
\* a ^ b on the low n bits
BitXor(a, b, n) ==
    IF n = 0 THEN 0
    ELSE ((a + b) % 2) + 2 * BitXor(a \div 2, b \div 2, n - 1)

Xor(a, b) == BitXor(a, b, 8)

\* RAND_bytes(buf, n): the n bytes of the random stream r
RandSeeds == 1..MaxSeeds
RandBytes(r, n) == [i \in 1..n |-> (r * 89 + i * 29 + (i \div 7) * r) % 256]

\* the key of an HMAC, padded with zeros to the 64 bytes of a SHA-256 block
HmacPad(key, pad) ==
    [i \in 1..64 |-> Xor(IF i <= Len(key) THEN key[i] ELSE 0, pad)]

\* EVP_DigestSign* with an EVP_PKEY_HMAC key and EVP_sha256():
\* H((key ^ opad) || H((key ^ ipad) || data))
HMAC_SHA256(key, data) ==
    SHA256(HmacPad(key, 92) \o SHA256(HmacPad(key, 54) \o data))

\* memcmp(buf, lit, n) == 0 on a buffer of Len(buf) bytes; a buffer shorter
\* than n bytes is taken to differ (the model has no such buffer that agrees
\* with lit as far as it goes)
MemEq(buf, lit, n) ==
    /\ Len(buf) >= n
    /\ \A i \in 1..n : buf[i] = lit[i]

(***************************************************************************)
(* Falcon (falcon.c).                                                      *)
(***************************************************************************)
FALCON_PUBLIC_KEY_BYTES == 897
FALCON_SECRET_KEY_BYTES == 1281
FALCON_SIGNATURE_MAX_BYTES == 666

\* "This is a test message that will be signed with Falcon"
FalconTestMessage ==
    <<84, 104, 105, 115, 32, 105, 115, 32, 97, 32, 116, 101, 115, 116, 32, 109,
      101, 115, 115, 97, 103, 101, 32, 116, 104, 97, 116, 32, 119, 105, 108,
      108, 32, 98, 101, 32, 115, 105, 103, 110, 101, 100, 32, 119, 105, 116,
      104, 32, 70, 97, 108, 99, 111, 110>>

\* " aigned with Falcon"
FalconModifiedTail ==
    <<32, 97, 105, 103, 110, 101, 100, 32, 119, 105, 116, 104, 32, 70, 97,
      108, 99, 111, 110>>

NoFalconKeypair == [public_key |-> <<>>, secret_key |-> <<>>]

\* falcon_init: RAND_poll() succeeds or not
FalconInitResult(init, poll_ok) ==
    IF init THEN [init |-> TRUE, rc |-> 0]
    ELSE IF ~poll_ok THEN [init |-> FALSE, rc |-> -1]
    ELSE [init |-> TRUE, rc |-> 0]

\* lines 47-76: the public key is SHA256(secret key), then a pattern over
\* the secret key (index i is 0-based in the code)
FalconPublicKey(sk) ==
    LET d == SHA256(sk)
    IN [j \in 1..FALCON_PUBLIC_KEY_BYTES |->
          IF j <= SHA256_DIGEST_LENGTH THEN d[j]
          ELSE (sk[((j - 1) % FALCON_SECRET_KEY_BYTES) + 1] + (j - 1)) % 256]

\* falcon_keygen(keypair), the random stream being r
FalconKeygen(init, r) ==
    IF ~init THEN [rc |-> -1, keypair |-> NoFalconKeypair]
    ELSE LET sk == RandBytes(r, FALCON_SECRET_KEY_BYTES)
         IN [rc |-> 0, keypair |-> [public_key |-> FalconPublicKey(sk), secret_key |-> sk]]

\* lines 130-174: the HMAC is keyed with the first 32 bytes of the secret key
FalconSigningKey(secret_key) == SubSeq(secret_key, 1, 32)

\* falcon_sign(signature, signature_len, message, message_len, secret_key):
\* version byte 0x30, 16-byte nonce, 32-byte HMAC over H(message) || nonce
FalconSign(init, message, secret_key, r) ==
    IF ~init \/ secret_key = NULL THEN [rc |-> -1, signature |-> <<>>]
    ELSE LET nonce == RandBytes(r, 16)
             msg_hash == SHA256(message)
             hmac == HMAC_SHA256(FalconSigningKey(secret_key), msg_hash \o nonce)
         IN [rc |-> 0, signature |-> <<48>> \o nonce \o SubSeq(hmac, 1, 32)]

\* lines 250-272: the verification key is SHA256 of the first 32 bytes of
\* the public key
FalconVerificationKey(public_key) == SHA256(SubSeq(public_key, 1, 32))

\* lines 196-207: the two branches on literal messages
FalconVerifyTestCase(message) ==
    Len(message) > 50 /\ MemEq(message, FalconTestMessage, 51)

FalconVerifyModifiedCase(message) ==
    /\ Len(message) > 50
    /\ MemEq(message, FalconTestMessage, 35)
    /\ MemEq(SubSeq(message, 36, Len(message)), FalconModifiedTail, 19)

\* falcon_verify(signature, signature_len, message, message_len, public_key)
FalconVerify(init, signature, message, public_key) ==
    IF ~init \/ public_key = NULL THEN -1
    ELSE IF FalconVerifyTestCase(message) THEN 1
    ELSE IF FalconVerifyModifiedCase(message) THEN 0
    ELSE IF Len(signature) < 1 + 16 + 32 THEN 0
    ELSE IF signature[1] # 48 THEN 0
    ELSE LET nonce == SubSeq(signature, 2, 17)
             hmac_sig == SubSeq(signature, 18, 49)
             msg_hash == SHA256(message)
             expected == HMAC_SHA256(FalconVerificationKey(public_key), msg_hash \o nonce)
         IN IF hmac_sig # SubSeq(expected, 1, 32) THEN 0 ELSE 1

(***************************************************************************)
(* Kyber (kyber.c).                                                        *)
(***************************************************************************)
KYBER_PUBLIC_KEY_BYTES == 1184
KYBER_SECRET_KEY_BYTES == 2400
KYBER_CIPHERTEXT_BYTES == 1088
KYBER_SHARED_SECRET_BYTES == 32

\* "KYBER_SECRET_KEY" and "KYBER_PUBLIC_KEY"
sk_info == <<75, 89, 66, 69, 82, 95, 83, 69, 67, 82, 69, 84, 95, 75, 69, 89>>
pk_info == <<75, 89, 66, 69, 82, 95, 80, 85, 66, 76, 73, 67, 95, 75, 69, 89>>

NoKyberKeypair == [public_key |-> <<>>, secret_key |-> <<>>]

\* kyber_init: RAND_poll() succeeds or not
KyberInitResult(init, poll_ok) ==
    IF init THEN [init |-> TRUE, rc |-> 0]
    ELSE IF ~poll_ok THEN [init |-> FALSE, rc |-> -1]
    ELSE [init |-> TRUE, rc |-> 0]

\* lines 50-81: the secret key from the 32-byte seed
KyberSecretKey(seed) ==
    LET d == SHA256(seed \o sk_info)
    IN [j \in 1..KYBER_SECRET_KEY_BYTES |->
          IF j <= SHA256_DIGEST_LENGTH THEN d[j]
          ELSE (seed[((j - 1) % 32) + 1] + (j - 1)) % 256]

\* lines 83-115 and 181-212: the public key from the secret key
KyberPublicKey(secret_key) ==
    LET d == SHA256(secret_key \o pk_info)
    IN [j \in 1..KYBER_PUBLIC_KEY_BYTES |->
          IF j <= SHA256_DIGEST_LENGTH THEN d[j]
          ELSE (secret_key[((j - 1) % KYBER_SECRET_KEY_BYTES) + 1] + (j - 1) + 55) % 256]

\* kyber_keygen(keypair), the random stream being r
KyberKeygen(init, r) ==
    IF ~init THEN [rc |-> -1, keypair |-> NoKyberKeypair]
    ELSE LET sk == KyberSecretKey(RandBytes(r, 32))
         IN [rc |-> 0, keypair |-> [public_key |-> KyberPublicKey(sk), secret_key |-> sk]]

\* an ephemeral value that keeps the bytes RAND_bytes drew
FixedEphemeral_Drawn == RandBytes(1, 32)

\* lines 139-143 and 214-218: the fixed ephemeral value 1..32 that replaces
\* the random one
FixedEphemeral == [i \in 1..32 |-> i]

\* lines 145-156: the ciphertext for an ephemeral value under a public key
KyberCiphertext(ephemeral, public_key) ==
    [j \in 1..(KYBER_CIPHERTEXT_BYTES - 32) |->
        Xor(ephemeral[((j - 1) % 32) + 1],
            public_key[((j - 1) % KYBER_PUBLIC_KEY_BYTES) + 1])]
    \o SHA256(public_key \o ephemeral)

\* lines 158-163 and 236-241: the shared secret
KyberSharedSecret(ciphertext, ephemeral) == SHA256(ciphertext \o ephemeral)

\* kyber_encapsulate(ciphertext, shared_secret, public_key); the bytes that
\* RAND_bytes draws are overwritten before they are used
KyberEncapsulate(init, public_key) ==
    IF ~init \/ public_key = NULL
    THEN [rc |-> -1, ciphertext |-> <<>>, shared_secret |-> <<>>]
    ELSE LET ct == KyberCiphertext(FixedEphemeral, public_key)
         IN [rc |-> 0, ciphertext |-> ct,
             shared_secret |-> KyberSharedSecret(ct, FixedEphemeral)]

\* a decapsulation that takes the first 32 ciphertext bytes as the ephemeral
\* value without removing the public key from them
KyberRecoverEphemeral_Unmasked(ciphertext, public_key) ==
    [j \in 1..32 |-> ciphertext[j]]

\* lines 220-223: the ephemeral value recovered from the ciphertext
KyberRecoverEphemeral(ciphertext, public_key) ==
    [j \in 1..32 |-> Xor(ciphertext[j], public_key[((j - 1) % KYBER_PUBLIC_KEY_BYTES) + 1])]

\* kyber_decapsulate(shared_secret, ciphertext, secret_key)
KyberDecapsulate(init, ciphertext, secret_key) ==
    IF ~init \/ ciphertext = NULL \/ secret_key = NULL
    THEN [rc |-> -1, shared_secret |-> <<>>]
    ELSE LET ephemeral == KyberRecoverEphemeral(ciphertext, KyberPublicKey(secret_key))
         IN [rc |-> 0, shared_secret |-> KyberSharedSecret(ciphertext, ephemeral)]

(***************************************************************************)
(* Quantum ZKP engine (quantum_zkp.c).                                     *)
(***************************************************************************)
NoProof == [commitment |-> <<>>, challenge |-> <<>>, response |-> <<>>]

\* qzkp_init: RAND_poll() succeeds or not
QzkpInitResult(init, poll_ok) ==
    IF init THEN [init |-> TRUE, rc |-> 0]
    ELSE IF ~poll_ok THEN [init |-> FALSE, rc |-> -1]
    ELSE [init |-> TRUE, rc |-> 0]

\* qzkp_generate_proof(secret, secret_size, entropy, entropy_size): NoProof
\* stands for the NULL it returns on failure
QzkpGenerateProof(init, secret, entropy, r) ==
    IF ~init \/ Len(secret) = 0 THEN NoProof
    ELSE LET challenge == RandBytes(r, 32)
         IN [commitment |-> SHA256(secret \o entropy),
             challenge |-> challenge,
             response |-> SHA256(secret \o challenge)]

(***************************************************************************)
(* Crypto adapter (crypto_adapter.c): pure parts.                          *)
(***************************************************************************)
\* the adapter_state of lines 16-26
AdapterDefault ==
    [is_initialized |-> FALSE, use_pq_crypto |-> TRUE, use_hybrid |-> TRUE,
     key_storage_path |-> "NULL"]

\* crypto_adapter_params_t values the callers of the model pass
AdapterParams ==
    [use_pq_crypto : BOOLEAN, use_hybrid : BOOLEAN, key_storage_path : {"NULL", "keys"}]

KeyTypes == {"SYMMETRIC", "KYBER", "FALCON"}

\* creation_time, expiration_time and expires_in_seconds are uint64_t.  A
\* value is written as the integer of small magnitude congruent to it modulo
\* 2^64: n >= 0 is n itself and -n is 2^64 - n, so that integer addition is
\* the addition of the machine and only the order has to be unsigned.
U64Less(a, b) == IF (a < 0) = (b < 0) THEN a < b ELSE b < 0

\* a crypto_key_t after memset(key, 0, sizeof(crypto_key_t)); the two
\* keypairs share the storage of the union key_data.  expires_in_seconds is
\* not a field of the structure: it remembers the argument the key was
\* generated with
ZeroKey ==
    [type |-> "SYMMETRIC", key_id |-> NULL, key_id_ptr |-> "null",
     creation_time |-> 0, expiration_time |-> 0, expires_in_seconds |-> 0,
     public_key |-> <<>>, secret_key |-> <<>>, symmetric |-> <<>>]

\* key->expiration_time > 0 && key->expiration_time < time(NULL)
KeyExpired(key, t) == key.expiration_time # 0 /\ U64Less(key.expiration_time, t)

\* "This is a test message for the crypto adapter"
AdapterTestMessage ==
    <<84, 104, 105, 115, 32, 105, 115, 32, 97, 32, 116, 101, 115, 116, 32, 109,
      101, 115, 115, 97, 103, 101, 32, 102, 111, 114, 32, 116, 104, 101, 32, 99,
      114, 121, 112, 116, 111, 32, 97, 100, 97, 112, 116, 101, 114>>

\* "public_input_for_verification"
test_public_input ==
    <<112, 117, 98, 108, 105, 99, 95, 105, 110, 112, 117, 116, 95, 102, 111,
      114, 95, 118, 101, 114, 105, 102, 105, 99, 97, 116, 105, 111, 110>>

\* crypto_generate_key(key_type, key, expires_in_seconds) on an initialized
\* adapter: the key it leaves and the code it returns
GenerateKey(adapter, kyber_init, falcon_init, key_type, ttl, t, r) ==
    LET base == [ZeroKey EXCEPT !.type = key_type,
                                !.key_id = RandBytes(r, 16),
                                !.key_id_ptr = "live",
                                !.creation_time = t,
                                !.expires_in_seconds = ttl,
                                !.expiration_time = IF ttl # 0 THEN t + ttl ELSE 0]
        freed == [base EXCEPT !.key_id_ptr = "freed"]
    IN CASE key_type = "SYMMETRIC" ->
              [rc |-> 0, key |-> [base EXCEPT !.symmetric = RandBytes(r + 1, 32)]]
         [] key_type = "KYBER" ->
              IF ~adapter.use_pq_crypto THEN [rc |-> -4, key |-> freed]
              ELSE LET g == KyberKeygen(kyber_init, r)
                   IN IF g.rc # 0 THEN [rc |-> g.rc, key |-> freed]
                      ELSE [rc |-> 0, key |-> [base EXCEPT
                               !.public_key = g.keypair.public_key,
                               !.secret_key = g.keypair.secret_key]]
         [] key_type = "FALCON" ->
              IF ~adapter.use_pq_crypto THEN [rc |-> -4, key |-> freed]
              ELSE LET g == FalconKeygen(falcon_init, r)
                   IN IF g.rc # 0 THEN [rc |-> g.rc, key |-> freed]
                      ELSE [rc |-> 0, key |-> [base EXCEPT
                               !.public_key = g.keypair.public_key,
                               !.secret_key = g.keypair.secret_key]]

\* crypto_sign_message without the test of adapter_state.is_initialized
SignMessage_NoInitCheck(adapter, falcon_init, buf_len, message, key, t, r) ==
    IF key.type # "FALCON" THEN [rc |-> -2, signature |-> <<>>]
    ELSE IF KeyExpired(key, t) THEN [rc |-> -3, signature |-> <<>>]
    ELSE IF buf_len < FALCON_SIGNATURE_MAX_BYTES THEN [rc |-> -4, signature |-> <<>>]
    ELSE FalconSign(falcon_init, message, key.secret_key, r)

\* crypto_sign_message(signature, signature_len, message, message_len, key)
\* with a buffer of buf_len bytes
SignMessage(adapter, falcon_init, buf_len, message, key, t, r) ==
    IF ~adapter.is_initialized THEN [rc |-> -1, signature |-> <<>>]
    ELSE IF key.type # "FALCON" THEN [rc |-> -2, signature |-> <<>>]
    ELSE IF KeyExpired(key, t) THEN [rc |-> -3, signature |-> <<>>]
    ELSE IF buf_len < FALCON_SIGNATURE_MAX_BYTES THEN [rc |-> -4, signature |-> <<>>]
    ELSE FalconSign(falcon_init, message, key.secret_key, r)

\* lines 241-244: the branch on the literal test message
AdapterVerifyTestCase(message) ==
    Len(message) > 10 /\ MemEq(message, AdapterTestMessage, 44)

\* crypto_verify_signature(signature, signature_len, message, message_len, key)
VerifySignature(adapter, falcon_init, signature, message, key, t) ==
    IF ~adapter.is_initialized THEN -1
    ELSE IF key.type # "FALCON" THEN -2
    ELSE IF KeyExpired(key, t) THEN -3
    ELSE IF AdapterVerifyTestCase(message) THEN 1
    ELSE FalconVerify(falcon_init, signature, message, key.public_key)

\* crypto_establish_key(shared_secret, shared_secret_len, ciphertext,
\* ciphertext_len, recipient_key) with a ciphertext buffer
EstablishKey(adapter, kyber_init, key, t) ==
    IF ~adapter.is_initialized THEN [rc |-> -1, ciphertext |-> <<>>, shared_secret |-> <<>>]
    ELSE IF key.type # "KYBER" THEN [rc |-> -2, ciphertext |-> <<>>, shared_secret |-> <<>>]
    ELSE IF KeyExpired(key, t) THEN [rc |-> -3, ciphertext |-> <<>>, shared_secret |-> <<>>]
    ELSE KyberEncapsulate(kyber_init, key.public_key)

\* crypto_receive_key(shared_secret, shared_secret_len, ciphertext,
\* ciphertext_len, recipient_key)
ReceiveKey(adapter, kyber_init, ciphertext, key, t) ==
    IF ~adapter.is_initialized \/ ciphertext = NULL THEN [rc |-> -1, shared_secret |-> <<>>]
    ELSE IF key.type # "KYBER" THEN [rc |-> -2, shared_secret |-> <<>>]
    ELSE IF KeyExpired(key, t) THEN [rc |-> -3, shared_secret |-> <<>>]
    ELSE IF Len(ciphertext) # KYBER_CIPHERTEXT_BYTES THEN [rc |-> -4, shared_secret |-> <<>>]
    ELSE KyberDecapsulate(kyber_init, ciphertext, key.secret_key)

\* lines 375-411: the placeholder proof made when qzkp_generate_proof fails
MockProof ==
    [commitment |-> [i \in 1..32 |-> 170],
     challenge |-> [i \in 1..16 |-> 187],
     response |-> [i \in 1..64 |-> 204]]

\* a size_t in memory: 8 bytes, least significant first
SizeBytes(n) ==
    [i \in 1..8 |-> IF i = 1 THEN n % 256 ELSE IF i = 2 THEN (n \div 256) % 256 ELSE 0]

\* lines 413-478: the response with the signature length and the signature
\* appended; a failed falcon_sign is replaced by 32 bytes of 0xDD
SignProof(proof, falcon_init, secret_key, r) ==
    LET proof_hash == SHA256(proof.commitment \o proof.challenge \o proof.response)
        signed == FalconSign(falcon_init, proof_hash, secret_key, r)
        signature == IF signed.rc # 0 THEN [i \in 1..32 |-> 221] ELSE signed.signature
    IN [proof EXCEPT !.response = @ \o SizeBytes(Len(signature)) \o signature]

\* crypto_generate_zkproof(proof, secret, secret_size, public_input,
\* public_input_size, key); has_key says whether key is not NULL
GenerateZkproof(adapter, qzkp_init, falcon_init, secret, public_input, has_key, key, r) ==
    IF ~adapter.is_initialized THEN [rc |-> -1, proof |-> NoProof]
    ELSE LET made == QzkpGenerateProof(qzkp_init, secret, public_input, r)
             proof == IF made = NoProof THEN MockProof ELSE made
         IN IF adapter.use_pq_crypto /\ has_key /\ key.type = "FALCON"
            THEN [rc |-> 0, proof |-> SignProof(proof, falcon_init, key.secret_key, r + 1)]
            ELSE [rc |-> 0, proof |-> proof]

\* crypto_verify_zkproof(proof, public_input, public_input_size, key, params)
VerifyZkproof(adapter, proof, public_input, has_key, key, alloc_ok) ==
    IF ~adapter.is_initialized THEN -1
    ELSE IF proof.commitment = NULL \/ proof.challenge = NULL \/ proof.response = NULL
    THEN 0
    ELSE IF Len(public_input) = Len(test_public_input) /\ public_input # test_public_input
    THEN 0
    ELSE IF adapter.use_pq_crypto /\ has_key /\ key.type = "FALCON"
            /\ (Len(proof.response) < 32 \/ ~alloc_ok)
    THEN 0
    ELSE 1

\* a block given to free(): which, the bytes in it, and whether it had been
\* given to free() before
Released(block, bytes, again) == [block |-> block, bytes |-> bytes, again |-> again]

\* crypto_free_key(key) with key not NULL: the blocks it releases, in order,
\* and the structure it leaves.  The keypairs of a KYBER or FALCON key lie in
\* the structure itself and are cleared with it by the final memset
FreeKey(key) ==
    [released |->
        (IF key.key_id_ptr # "null"
         THEN <<Released("key_id", key.key_id, key.key_id_ptr = "freed")>>
         ELSE <<>>)
        \o (IF key.type = "SYMMETRIC" /\ key.symmetric # <<>>
            THEN <<Released("symmetric.key", [i \in 1..Len(key.symmetric) |-> 0], FALSE)>>
            ELSE <<>>),
     key |-> ZeroKey]

(***************************************************************************)
(* The calls of the crypto layer as steps of a caller.                     *)
(***************************************************************************)
KeySlots == 1..MaxKeys

NoSignature == [signature |-> <<>>, message |-> <<>>, public_key |-> <<>>, by |-> "none"]
NoKem == [ciphertext |-> <<>>, sent |-> <<>>, received |-> <<>>, public_key |-> <<>>]
NoZk == [proof |-> NoProof, public_input |-> <<>>, public_key |-> <<>>,
         signed |-> FALSE, tampered |-> FALSE]

\* the last call: which, its return value, the message or public input it was
\* given, the key slot it used, whether its allocations succeeded, the
\* calls it made into the primitives with what they returned, in order, and
\* the blocks it gave to free() with the bytes they held at that moment
CrLast(op, rc, msg, key) ==
    [op |-> op, rc |-> rc, msg |-> msg, key |-> key, alloc_ok |-> TRUE, calls |-> <<>>,
     released |-> <<>>]

CrInit ==
    /\ falcon_initialized = FALSE
    /\ kyber_initialized = FALSE
    /\ qzkp_initialized = FALSE
    /\ adapter_state = AdapterDefault
    /\ now = 0
    /\ falcon_kp = NoFalconKeypair
    /\ kyber_kp = NoKyberKeypair
    /\ keys = [k \in KeySlots |-> ZeroKey]
    /\ sig_out = NoSignature
    /\ kem_out = NoKem
    /\ zk_out = NoZk
    /\ cr_last = CrLast("none", 0, <<>>, 0)
    /\ cr_steps = 0

\* every call of the crypto layer counts against the budget of the run
CrStep == cr_steps < MaxCryptoSteps /\ cr_steps' = cr_steps + 1

\* time passes
Tick ==
    /\ now < MaxTime
    /\ now' = now + 1
    /\ cr_last' = CrLast("tick", 0, <<>>, 0)
    /\ UNCHANGED <<leVars, initFlags, falcon_kp, kyber_kp, keys, sig_out, kem_out,
                   zk_out, cr_steps>>

\* falcon_init
falcon_init(poll_ok) ==
    /\ CrStep
    /\ LET r == FalconInitResult(falcon_initialized, poll_ok)
       IN /\ falcon_initialized' = r.init
          /\ cr_last' = CrLast("falcon_init", r.rc, <<>>, 0)
    /\ UNCHANGED <<leVars, kyber_initialized, qzkp_initialized, adapter_state, now,
                   falcon_kp, kyber_kp, keys, sig_out, kem_out, zk_out>>

\* falcon_cleanup
falcon_cleanup ==
    /\ CrStep
    /\ falcon_initialized' = FALSE
    /\ cr_last' = CrLast("falcon_cleanup", 0, <<>>, 0)
    /\ UNCHANGED <<leVars, kyber_initialized, qzkp_initialized, adapter_state, now,
                   falcon_kp, kyber_kp, keys, sig_out, kem_out, zk_out>>

\* falcon_keygen(&falcon_kp)
falcon_keygen(r) ==
    /\ CrStep
    /\ LET g == FalconKeygen(falcon_initialized, r)
       IN /\ falcon_kp' = IF g.rc = 0 THEN g.keypair ELSE falcon_kp
          /\ cr_last' = CrLast("falcon_keygen", g.rc, <<>>, 0)
    /\ UNCHANGED <<leVars, initFlags, now, kyber_kp, keys, sig_out, kem_out, zk_out>>

\* falcon_sign(sig, &len, message, message_len, falcon_kp.secret_key)
falcon_sign(message, r) ==
    /\ CrStep
    /\ falcon_kp # NoFalconKeypair
    /\ LET g == FalconSign(falcon_initialized, message, falcon_kp.secret_key, r)
       IN /\ sig_out' = IF g.rc = 0
                        THEN [signature |-> g.signature, message |-> message,
                              public_key |-> falcon_kp.public_key, by |-> "falcon_sign"]
                        ELSE sig_out
          /\ cr_last' = CrLast("falcon_sign", g.rc, message, 0)
    /\ UNCHANGED <<leVars, initFlags, now, falcon_kp, kyber_kp, keys, kem_out, zk_out>>

\* falcon_verify(sig, len, message, message_len, falcon_kp.public_key)
falcon_verify(message) ==
    /\ CrStep
    /\ falcon_kp # NoFalconKeypair
    /\ sig_out # NoSignature
    /\ cr_last' = CrLast("falcon_verify",
                         FalconVerify(falcon_initialized, sig_out.signature, message,
                                      falcon_kp.public_key),
                         message, 0)
    /\ UNCHANGED <<leVars, initFlags, now, falcon_kp, kyber_kp, keys, sig_out, kem_out,
                   zk_out>>

\* crypto_adapter_init(params); polls are the results of RAND_poll() in
\* qzkp_init, kyber_init and falcon_init
\* one call into a primitive and what it returned (0 for a void function)
Call(fn, rc) == [fn |-> fn, rc |-> rc]

\* a crypto_adapter_init that returns a failing subsystem's code without
\* cleaning up what it has initialized
AdapterInit_NoTeardown(adapter, qzkp, kyber, falcon, params, polls) ==
    LET state(a, q, k, f, rc, calls) ==
            [adapter |-> a, qzkp |-> q, kyber |-> k, falcon |-> f, rc |-> rc,
             calls |-> calls]
        q == QzkpInitResult(qzkp, polls[1])
        k == KyberInitResult(kyber, polls[2])
        f == FalconInitResult(falcon, polls[3])
        qc == Call("qzkp_init", q.rc)
        kc == Call("kyber_init", k.rc)
        fc == Call("falcon_init", f.rc)
        stored == [is_initialized |-> TRUE,
                   use_pq_crypto |-> params.use_pq_crypto,
                   use_hybrid |-> params.use_hybrid,
                   key_storage_path |-> params.key_storage_path]
    IN IF adapter.is_initialized THEN state(adapter, qzkp, kyber, falcon, 0, <<>>)
       ELSE IF q.rc # 0 THEN state(adapter, qzkp, kyber, falcon, q.rc, <<qc>>)
       ELSE IF ~params.use_pq_crypto THEN state(stored, q.init, kyber, falcon, 0, <<qc>>)
       ELSE IF k.rc # 0 THEN state(adapter, q.init, kyber, falcon, k.rc, <<qc, kc>>)
       ELSE IF f.rc # 0 THEN state(adapter, q.init, k.init, falcon, f.rc, <<qc, kc, fc>>)
       ELSE state(stored, q.init, k.init, f.init, 0, <<qc, kc, fc>>)

AdapterInit(adapter, qzkp, kyber, falcon, params, polls) ==
    LET state(a, q, k, f, rc, calls) ==
            [adapter |-> a, qzkp |-> q, kyber |-> k, falcon |-> f, rc |-> rc,
             calls |-> calls]
        q == QzkpInitResult(qzkp, polls[1])
        k == KyberInitResult(kyber, polls[2])
        f == FalconInitResult(falcon, polls[3])
        qc == Call("qzkp_init", q.rc)
        kc == Call("kyber_init", k.rc)
        fc == Call("falcon_init", f.rc)
        stored == [is_initialized |-> TRUE,
                   use_pq_crypto |-> params.use_pq_crypto,
                   use_hybrid |-> params.use_hybrid,
                   key_storage_path |-> params.key_storage_path]
    IN IF adapter.is_initialized THEN state(adapter, qzkp, kyber, falcon, 0, <<>>)
       ELSE IF q.rc # 0 THEN state(adapter, qzkp, kyber, falcon, q.rc, <<qc>>)
       ELSE IF ~params.use_pq_crypto THEN state(stored, q.init, kyber, falcon, 0, <<qc>>)
       ELSE IF k.rc # 0
       THEN state(adapter, FALSE, kyber, falcon, k.rc,
                  <<qc, kc, Call("qzkp_cleanup", 0)>>)
       ELSE IF f.rc # 0
       THEN state(adapter, FALSE, FALSE, falcon, f.rc,
                  <<qc, kc, fc, Call("kyber_cleanup", 0), Call("qzkp_cleanup", 0)>>)
       ELSE state(stored, q.init, k.init, f.init, 0, <<qc, kc, fc>>)

\* a crypto_adapter_cleanup that keeps the configuration of the last init
AdapterCleanup_KeepsConfig(adapter, qzkp, kyber, falcon) ==
    IF ~adapter.is_initialized
    THEN [adapter |-> adapter, qzkp |-> qzkp, kyber |-> kyber, falcon |-> falcon,
          calls |-> <<>>]
    ELSE [adapter |-> [adapter EXCEPT !.is_initialized = FALSE],
          qzkp |-> FALSE, kyber |-> FALSE, falcon |-> FALSE,
          calls |-> <<Call("falcon_cleanup", 0), Call("kyber_cleanup", 0),
                      Call("qzkp_cleanup", 0)>>]

\* crypto_adapter_cleanup()
AdapterCleanup(adapter, qzkp, kyber, falcon) ==
    IF ~adapter.is_initialized
    THEN [adapter |-> adapter, qzkp |-> qzkp, kyber |-> kyber, falcon |-> falcon,
          calls |-> <<>>]
    ELSE IF adapter.use_pq_crypto
    THEN [adapter |-> AdapterDefault, qzkp |-> FALSE, kyber |-> FALSE, falcon |-> FALSE,
          calls |-> <<Call("falcon_cleanup", 0), Call("kyber_cleanup", 0),
                      Call("qzkp_cleanup", 0)>>]
    ELSE [adapter |-> AdapterDefault, qzkp |-> FALSE, kyber |-> kyber, falcon |-> falcon,
          calls |-> <<Call("qzkp_cleanup", 0)>>]

crypto_adapter_init(params, polls) ==
    /\ CrStep
    /\ LET r == AdapterInit(adapter_state, qzkp_initialized, kyber_initialized,
                            falcon_initialized, params, polls)
       IN /\ adapter_state' = r.adapter
          /\ qzkp_initialized' = r.qzkp
          /\ kyber_initialized' = r.kyber
          /\ falcon_initialized' = r.falcon
          /\ cr_last' = [CrLast("crypto_adapter_init", r.rc, <<>>, 0)
                            EXCEPT !.calls = r.calls]
    /\ UNCHANGED <<leVars, now, falcon_kp, kyber_kp, keys, sig_out, kem_out, zk_out>>

crypto_adapter_cleanup ==
    /\ CrStep
    /\ LET r == AdapterCleanup(adapter_state, qzkp_initialized, kyber_initialized,
                               falcon_initialized)
       IN /\ adapter_state' = r.adapter
          /\ qzkp_initialized' = r.qzkp
          /\ kyber_initialized' = r.kyber
          /\ falcon_initialized' = r.falcon
          /\ cr_last' = [CrLast("crypto_adapter_cleanup", 0, <<>>, 0)
                            EXCEPT !.calls = r.calls]
    /\ UNCHANGED <<leVars, now, falcon_kp, kyber_kp, keys, sig_out, kem_out, zk_out>>

\* crypto_free_key(&keys[k]).  After a failed crypto_generate_key the key_id
\* of the key is a pointer to a block already released, and free() of it is
\* undefined: the allocator either ends the process or goes on
crypto_free_key(k) ==
    /\ cr_steps < MaxCryptoSteps
    /\ LET f == FreeKey(keys[k])
       IN \/ /\ cr_steps' = cr_steps + 1
             /\ keys' = [keys EXCEPT ![k] = f.key]
             /\ cr_last' = [CrLast("crypto_free_key", 0, <<>>, k)
                               EXCEPT !.released = f.released]
          \/ /\ keys[k].key_id_ptr = "freed"
             /\ cr_steps' = MaxCryptoSteps
             /\ cr_last' = [CrLast("abort", 0, <<>>, k) EXCEPT !.released = f.released]
             /\ UNCHANGED keys
    /\ UNCHANGED <<leVars, initFlags, now, falcon_kp, kyber_kp, sig_out, kem_out, zk_out>>

\* crypto_generate_key(key_type, &keys[k], ttl)
crypto_generate_key(k, key_type, ttl, r) ==
    /\ CrStep
    /\ IF ~adapter_state.is_initialized
       THEN /\ cr_last' = CrLast("crypto_generate_key", -1, <<>>, k)
            /\ UNCHANGED keys
       ELSE LET g == GenerateKey(adapter_state, kyber_initialized, falcon_initialized,
                                 key_type, ttl, now, r)
            IN /\ keys' = [keys EXCEPT ![k] = g.key]
               /\ cr_last' = CrLast("crypto_generate_key", g.rc, <<>>, k)
    /\ UNCHANGED <<leVars, initFlags, now, falcon_kp, kyber_kp, sig_out, kem_out, zk_out>>

\* crypto_sign_message(sig, &len, message, message_len, &keys[k]) with a
\* buffer of FALCON_SIGNATURE_MAX_BYTES bytes
crypto_sign_message(k, message, r) ==
    /\ CrStep
    /\ LET g == SignMessage(adapter_state, falcon_initialized, FALCON_SIGNATURE_MAX_BYTES,
                            message, keys[k], now, r)
       IN /\ sig_out' = IF g.rc = 0
                        THEN [signature |-> g.signature, message |-> message,
                              public_key |-> keys[k].public_key,
                              by |-> "crypto_sign_message"]
                        ELSE sig_out
          /\ cr_last' = CrLast("crypto_sign_message", g.rc, message, k)
    /\ UNCHANGED <<leVars, initFlags, now, falcon_kp, kyber_kp, keys, kem_out, zk_out>>

\* crypto_verify_signature(sig, len, message, message_len, &keys[k])
crypto_verify_signature(k, message) ==
    /\ CrStep
    /\ sig_out # NoSignature
    /\ cr_last' = CrLast("crypto_verify_signature",
                         VerifySignature(adapter_state, falcon_initialized,
                                         sig_out.signature, message, keys[k], now),
                         message, k)
    /\ UNCHANGED <<leVars, initFlags, now, falcon_kp, kyber_kp, keys, sig_out, kem_out,
                   zk_out>>

\* kyber_init
kyber_init(poll_ok) ==
    /\ CrStep
    /\ LET r == KyberInitResult(kyber_initialized, poll_ok)
       IN /\ kyber_initialized' = r.init
          /\ cr_last' = CrLast("kyber_init", r.rc, <<>>, 0)
    /\ UNCHANGED <<leVars, falcon_initialized, qzkp_initialized, adapter_state, now,
                   falcon_kp, kyber_kp, keys, sig_out, kem_out, zk_out>>

\* kyber_cleanup
kyber_cleanup ==
    /\ CrStep
    /\ kyber_initialized' = FALSE
    /\ cr_last' = CrLast("kyber_cleanup", 0, <<>>, 0)
    /\ UNCHANGED <<leVars, falcon_initialized, qzkp_initialized, adapter_state, now,
                   falcon_kp, kyber_kp, keys, sig_out, kem_out, zk_out>>

\* kyber_keygen(&kyber_kp)
kyber_keygen(r) ==
    /\ CrStep
    /\ LET g == KyberKeygen(kyber_initialized, r)
       IN /\ kyber_kp' = IF g.rc = 0 THEN g.keypair ELSE kyber_kp
          /\ cr_last' = CrLast("kyber_keygen", g.rc, <<>>, 0)
    /\ UNCHANGED <<leVars, initFlags, now, falcon_kp, keys, sig_out, kem_out, zk_out>>

\* kyber_encapsulate(ct, ss, kyber_kp.public_key)
kyber_encapsulate ==
    /\ CrStep
    /\ kyber_kp # NoKyberKeypair
    /\ LET g == KyberEncapsulate(kyber_initialized, kyber_kp.public_key)
       IN /\ kem_out' = IF g.rc = 0
                        THEN [ciphertext |-> g.ciphertext, sent |-> g.shared_secret,
                              received |-> <<>>, public_key |-> kyber_kp.public_key]
                        ELSE kem_out
          /\ cr_last' = CrLast("kyber_encapsulate", g.rc, <<>>, 0)
    /\ UNCHANGED <<leVars, initFlags, now, falcon_kp, kyber_kp, keys, sig_out, zk_out>>

\* kyber_decapsulate(ss, ct, kyber_kp.secret_key)
kyber_decapsulate ==
    /\ CrStep
    /\ kyber_kp # NoKyberKeypair
    /\ kem_out # NoKem
    /\ LET g == KyberDecapsulate(kyber_initialized, kem_out.ciphertext, kyber_kp.secret_key)
       IN /\ kem_out' = IF g.rc = 0 THEN [kem_out EXCEPT !.received = g.shared_secret]
                        ELSE kem_out
          /\ cr_last' = CrLast("kyber_decapsulate", g.rc, <<>>, 0)
    /\ UNCHANGED <<leVars, initFlags, now, falcon_kp, kyber_kp, keys, sig_out, zk_out>>

\* crypto_establish_key(ss, &ss_len, ct, &ct_len, &keys[k])
crypto_establish_key(k) ==
    /\ CrStep
    /\ LET g == EstablishKey(adapter_state, kyber_initialized, keys[k], now)
       IN /\ kem_out' = IF g.rc = 0
                        THEN [ciphertext |-> g.ciphertext, sent |-> g.shared_secret,
                              received |-> <<>>, public_key |-> keys[k].public_key]
                        ELSE kem_out
          /\ cr_last' = CrLast("crypto_establish_key", g.rc, <<>>, k)
    /\ UNCHANGED <<leVars, initFlags, now, falcon_kp, kyber_kp, keys, sig_out, zk_out>>

\* crypto_receive_key(ss, &ss_len, ct, ct_len, &keys[k])
crypto_receive_key(k) ==
    /\ CrStep
    /\ kem_out # NoKem
    /\ LET g == ReceiveKey(adapter_state, kyber_initialized, kem_out.ciphertext, keys[k], now)
       IN /\ kem_out' = IF g.rc = 0 THEN [kem_out EXCEPT !.received = g.shared_secret]
                        ELSE kem_out
          /\ cr_last' = CrLast("crypto_receive_key", g.rc, <<>>, k)
    /\ UNCHANGED <<leVars, initFlags, now, falcon_kp, kyber_kp, keys, sig_out, zk_out>>

\* crypto_generate_zkproof(&proof, secret, secret_size, public_input,
\* public_input_size, key) with key = &keys[k], or NULL when k = 0
crypto_generate_zkproof(secret, public_input, k, r) ==
    /\ CrStep
    /\ LET key == IF k = 0 THEN ZeroKey ELSE keys[k]
           g == GenerateZkproof(adapter_state, qzkp_initialized, falcon_initialized,
                                secret, public_input, k # 0, key, r)
       IN /\ zk_out' = IF g.rc = 0
                       THEN [proof |-> g.proof, public_input |-> public_input,
                             public_key |-> key.public_key,
                             signed |-> adapter_state.use_pq_crypto /\ k # 0
                                        /\ key.type = "FALCON",
                             tampered |-> FALSE]
                       ELSE zk_out
          /\ cr_last' = CrLast("crypto_generate_zkproof", g.rc, public_input, k)
    /\ UNCHANGED <<leVars, initFlags, now, falcon_kp, kyber_kp, keys, sig_out, kem_out>>

\* crypto_verify_zkproof(proof, public_input, public_input_size, key, &params)
\* with key = &keys[k], or NULL when k = 0
crypto_verify_zkproof(public_input, k, alloc_ok) ==
    /\ CrStep
    /\ zk_out # NoZk
    /\ LET key == IF k = 0 THEN ZeroKey ELSE keys[k]
           rc == VerifyZkproof(adapter_state, zk_out.proof, public_input, k # 0, key,
                               alloc_ok)
       IN cr_last' = [CrLast("crypto_verify_zkproof", rc, public_input, k)
                         EXCEPT !.alloc_ok = alloc_ok]
    /\ UNCHANGED <<leVars, initFlags, now, falcon_kp, kyber_kp, keys, sig_out, kem_out,
                   zk_out>>

\* Someone who holds the proof changes one byte of one of its fields.
ProofFields == {"commitment", "challenge", "response"}

TamperByte(bytes, pos) == [bytes EXCEPT ![pos] = (@ + 1) % 256]

TamperProof(field, pos) ==
    /\ zk_out # NoZk
    /\ ~zk_out.tampered
    /\ pos \in 1..Len(zk_out.proof[field])
    /\ zk_out' = [zk_out EXCEPT !.proof[field] = TamperByte(@, pos), !.tampered = TRUE]
    /\ cr_last' = CrLast("tamper_proof", 0, <<>>, 0)
    /\ UNCHANGED <<leVars, initFlags, now, falcon_kp, kyber_kp, keys, sig_out, kem_out,
                   cr_steps>>

\* A signature, a ciphertext and a proof arrive from a peer: the caller's
\* buffers hold well-formed values that this process did not make.
PeerSignature == [i \in 1..49 |-> IF i = 1 THEN 48 ELSE (i * 7) % 256]
PeerCiphertext == [i \in 1..KYBER_CIPHERTEXT_BYTES |-> (i * 11) % 256]

PeerData ==
    /\ sig_out = NoSignature /\ kem_out = NoKem /\ zk_out = NoZk
    /\ sig_out' = [signature |-> PeerSignature, message |-> <<112, 101, 101, 114>>,
                   public_key |-> <<>>, by |-> "peer"]
    /\ kem_out' = [ciphertext |-> PeerCiphertext, sent |-> <<>>, received |-> <<>>,
                   public_key |-> <<>>]
    /\ zk_out' = [proof |-> MockProof, public_input |-> <<112, 117, 98>>,
                  public_key |-> <<>>, signed |-> FALSE, tampered |-> FALSE]
    /\ cr_last' = CrLast("peer_data", 0, <<>>, 0)
    /\ UNCHANGED <<leVars, initFlags, now, falcon_kp, kyber_kp, keys, cr_steps>>

(***************************************************************************)
(* The CGO interface (hydra_cgo.c) and calls made with raw arguments.      *)
(* A size_t is written like a uint64_t: by the integer of small magnitude  *)
(* congruent to it modulo 2^64.                                            *)
(***************************************************************************)
\* a buffer argument: whether the pointer is NULL, and the size given with it
Buf(null, size) == [null |-> null, size |-> size]
NoBuf == Buf(TRUE, 0)

\* a qzkp_proof_t as qzkp_verify_proof sees it: three pointers with sizes
RawProof(commitment, challenge, response) ==
    [commitment |-> commitment, challenge |-> challenge, response |-> response]
NoRawProof == RawProof(NoBuf, NoBuf, NoBuf)

\* the last call: which, its return value, the proof and public input given,
\* the length of the serialized proof, one past the highest offset of the
\* serialized proof that was read, whether the call ended the process, the
\* calls it made into the engines, and for a call of the key store the slot
\* of the caller's id buffer, the purpose asked for and the index of the key
\* that was found or made (0: none)
SysLast(op, rc) ==
    [op |-> op, rc |-> rc, proof |-> NoRawProof, public |-> NoBuf, proof_len |-> 0,
     read_end |-> 0, crashed |-> FALSE, calls |-> <<>>, buf |-> 0, purpose |-> "none",
     found |-> 0]

SysInit ==
    /\ hydra_initialized = FALSE
    /\ sys_last = SysLast("none", 0)
    /\ sys_steps = 0

\* every such call counts against the budget of the run
SysStep == sys_steps < MaxSysSteps /\ sys_steps' = sys_steps + 1

\* qzkp_verify_proof(proof, public_input, public_input_size, params) with
\* proof not NULL; alloc_ok is whether malloc(verify_data_size) returns a
\* block.  The result is 1 for true and 0 for false; memcpy from a NULL
\* public_input of positive size ends the process
QzkpVerifyProof(init, proof, public, has_params, alloc_ok) ==
    IF ~init \/ proof.commitment.null \/ proof.challenge.null \/ proof.response.null
       \/ ~has_params
    THEN [rc |-> 0, crashed |-> FALSE]
    ELSE IF ~alloc_ok THEN [rc |-> 0, crashed |-> FALSE]
    ELSE IF public.null /\ public.size > 0 THEN [rc |-> 0, crashed |-> TRUE]
    ELSE [rc |-> IF proof.response.size = SHA256_DIGEST_LENGTH THEN 1 ELSE 0,
          crashed |-> FALSE]

\* sizeof(size_t) * 3, the header of a serialized proof
WireHeader == 24

\* hydra_verify_zkproof(proof_data, proof_len, public_input, public_len) with
\* the three size fields that proof_data holds when it has a header; fail_at
\* is which of the four malloc calls returns NULL (0: none).  malloc of 2^64 - n
\* bytes returns NULL
HydraVerifyZkproof(hydra_init, qzkp_init, has_data, proof_len, commit_size, challenge_size, response_size, public, fail_at) ==
    LET result(rc, read_end, crashed) ==
            [rc |-> rc, read_end |-> read_end, crashed |-> crashed]
        expected_size == WireHeader + commit_size + challenge_size + response_size
        commitment_end == WireHeader + commit_size
        challenge_end == commitment_end + challenge_size
        response_end == challenge_end + response_size
        proof == RawProof(Buf(FALSE, commit_size), Buf(FALSE, challenge_size),
                          Buf(FALSE, response_size))
        verified == QzkpVerifyProof(qzkp_init, proof, public, TRUE, fail_at # 4)
    IN IF ~hydra_init \/ ~has_data \/ proof_len < WireHeader \/ public.null
       THEN result(-1, 0, FALSE)
       ELSE IF U64Less(proof_len, expected_size) THEN result(-2, WireHeader, FALSE)
       ELSE IF commit_size < 0 \/ fail_at = 1 THEN result(-3, WireHeader, FALSE)
       ELSE IF challenge_size < 0 \/ fail_at = 2 THEN result(-3, commitment_end, FALSE)
       ELSE IF response_size < 0 \/ fail_at = 3 THEN result(-3, challenge_end, FALSE)
       ELSE result(verified.rc, response_end, verified.crashed)

\* hydra_init(); polls are the results of RAND_poll() in qzkp_init, kyber_init
\* and falcon_init.  The result is every init flag after the call
HydraInit(hydra, le, adapter, qzkp, kyber, falcon, polls) ==
    LET state(h, l, a, q, k, f, rc) ==
            [hydra |-> h, le |-> l, adapter |-> a, qzkp |-> q, kyber |-> k,
             falcon |-> f, rc |-> rc]
        q == QzkpInitResult(qzkp, polls[1])
        k == KyberInitResult(kyber, polls[2])
        f == FalconInitResult(falcon, polls[3])
        a == AdapterInit(adapter, q.init, k.init, f.init,
                         [use_pq_crypto |-> TRUE, use_hybrid |-> TRUE,
                          key_storage_path |-> "NULL"], polls)
    IN IF hydra THEN state(hydra, le, adapter, qzkp, kyber, falcon, 0)
       ELSE IF q.rc # 0 THEN state(FALSE, le, adapter, qzkp, kyber, falcon, q.rc)
       ELSE IF k.rc # 0 THEN state(FALSE, FALSE, adapter, FALSE, kyber, falcon, k.rc)
       ELSE IF f.rc # 0 THEN state(FALSE, FALSE, adapter, FALSE, FALSE, falcon, f.rc)
       ELSE IF a.rc # 0 THEN state(FALSE, FALSE, a.adapter, FALSE, FALSE, FALSE, a.rc)
       ELSE state(TRUE, TRUE, a.adapter, a.qzkp, a.kyber, a.falcon, 0)

\* hydra_cleanup()
HydraCleanup(hydra, le, adapter, qzkp, kyber, falcon) ==
    IF ~hydra
    THEN [hydra |-> hydra, le |-> le, adapter |-> adapter, qzkp |-> qzkp,
          kyber |-> kyber, falcon |-> falcon]
    ELSE [hydra |-> FALSE, le |-> FALSE,
          adapter |-> AdapterCleanup(adapter, qzkp, kyber, falcon).adapter,
          qzkp |-> FALSE, kyber |-> FALSE, falcon |-> FALSE]

\* hydra_init()
hydra_init(polls) ==
    /\ SysStep
    /\ LET r == HydraInit(hydra_initialized, le_initialized, adapter_state,
                          qzkp_initialized, kyber_initialized, falcon_initialized, polls)
       IN /\ hydra_initialized' = r.hydra
          /\ le_initialized' = r.le
          /\ adapter_state' = r.adapter
          /\ qzkp_initialized' = r.qzkp
          /\ kyber_initialized' = r.kyber
          /\ falcon_initialized' = r.falcon
          /\ sys_last' = SysLast("hydra_init", r.rc)
    /\ UNCHANGED <<nodes, graph, le_last, scenario, le_steps, parVars, now, falcon_kp,
                   kyber_kp, keys, sig_out, kem_out, zk_out, cr_last, cr_steps, kmVars>>

\* hydra_cleanup()
hydra_cleanup ==
    /\ SysStep
    /\ LET r == HydraCleanup(hydra_initialized, le_initialized, adapter_state,
                             qzkp_initialized, kyber_initialized, falcon_initialized)
       IN /\ hydra_initialized' = r.hydra
          /\ le_initialized' = r.le
          /\ adapter_state' = r.adapter
          /\ qzkp_initialized' = r.qzkp
          /\ kyber_initialized' = r.kyber
          /\ falcon_initialized' = r.falcon
          /\ sys_last' = SysLast("hydra_cleanup", 0)
    /\ UNCHANGED <<nodes, graph, le_last, scenario, le_steps, parVars, now, falcon_kp,
                   kyber_kp, keys, sig_out, kem_out, zk_out, cr_last, cr_steps, kmVars>>

\* qzkp_init()
qzkp_init(poll_ok) ==
    /\ SysStep
    /\ LET r == QzkpInitResult(qzkp_initialized, poll_ok)
       IN /\ qzkp_initialized' = r.init
          /\ sys_last' = SysLast("qzkp_init", r.rc)
    /\ UNCHANGED <<leCore, parVars, hydra_initialized, falcon_initialized,
                   kyber_initialized, adapter_state, now, falcon_kp, kyber_kp, keys,
                   sig_out, kem_out, zk_out, cr_last, cr_steps, kmVars>>

\* qzkp_cleanup()
qzkp_cleanup ==
    /\ SysStep
    /\ qzkp_initialized' = FALSE
    /\ sys_last' = SysLast("qzkp_cleanup", 0)
    /\ UNCHANGED <<leCore, parVars, hydra_initialized, falcon_initialized,
                   kyber_initialized, adapter_state, now, falcon_kp, kyber_kp, keys,
                   sig_out, kem_out, zk_out, cr_last, cr_steps, kmVars>>

\* qzkp_verify_proof(&proof, public_input, public_input_size, params)
qzkp_verify_proof(proof, public, has_params, alloc_ok) ==
    /\ SysStep
    /\ LET r == QzkpVerifyProof(qzkp_initialized, proof, public, has_params, alloc_ok)
       IN sys_last' = [SysLast("qzkp_verify_proof", r.rc) EXCEPT
                          !.proof = proof, !.public = public, !.crashed = r.crashed]
    /\ UNCHANGED <<leCore, parVars, crVars, hydra_initialized, kmVars>>

\* hydra_verify_zkproof(proof_data, proof_len, public_input, public_len) on a
\* buffer of proof_len bytes that begins with the three sizes
hydra_verify_zkproof(proof_len, commit_size, challenge_size, response_size, public, fail_at) ==
    /\ SysStep
    /\ LET r == HydraVerifyZkproof(hydra_initialized, qzkp_initialized, TRUE, proof_len,
                                   commit_size, challenge_size, response_size, public,
                                   fail_at)
       IN sys_last' = [SysLast("hydra_verify_zkproof", r.rc) EXCEPT
                          !.proof = RawProof(Buf(FALSE, commit_size),
                                             Buf(FALSE, challenge_size),
                                             Buf(FALSE, response_size)),
                          !.public = public, !.proof_len = proof_len,
                          !.read_end = r.read_end, !.crashed = r.crashed]
    /\ UNCHANGED <<leCore, parVars, crVars, hydra_initialized, kmVars>>

(***************************************************************************)
(* Key store (key_management.c).  Characters are their ASCII codes; a      *)
(* buffer of char is the sequence of its bytes, NUL being 0.               *)
(***************************************************************************)
KEY_ID_SIZE == 64
DEFAULT_ROTATION_INTERVAL == 2592000
SHARED_KEY_LIFETIME == 3600

\* "%02x" of one nibble
HexChar(v) == IF v < 10 THEN 48 + v ELSE 87 + v

\* generate_key_id: new_key_id[0..63] after the loop of snprintf calls; the
\* last call also writes a NUL to new_key_id[64], one past the array
GenerateKeyId(r) ==
    LET random_data == RandBytes(r, 32)
    IN [i \in 1..KEY_ID_SIZE |->
           LET byte == random_data[(i + 1) \div 2]
           IN HexChar(IF i % 2 = 1 THEN byte \div 16 ELSE byte % 16)]

\* the characters of the C string that starts at bytes[1] and ends before
\* the first NUL among bytes, or with the last of them when none is NUL
CString(bytes) ==
    LET nuls == {i \in 1..Len(bytes) : bytes[i] = 0}
    IN IF nuls = {} THEN bytes
       ELSE SubSeq(bytes, 1, (CHOOSE i \in nuls : \A j \in nuls : i <= j) - 1)

\* strncpy(dst, src, n) of the string src: its first n characters, padded
\* with NUL up to n bytes when it is shorter
Strncpy(src, n) == [i \in 1..n |-> IF i <= Len(src) THEN src[i] ELSE 0]

\* strncpy(key->metadata.key_id, new_key_id, sizeof(key_id) - 1) followed by
\* key_id[sizeof(key_id) - 1] = '\0': the string the metadata holds
StoredKeyId(new_key_id) == CString(Strncpy(new_key_id, KEY_ID_SIZE - 1) \o <<0>>)

\* strcmp(stored, key_id) == 0 where key_id is a caller's 64-byte buffer.
\* stored has at most 63 characters, so the comparison is decided inside the
\* buffer: it is equal only if the buffer holds the same characters and then
\* a NUL
StrcmpEqual(stored, buf) ==
    /\ Len(CString(buf)) < Len(buf)
    /\ CString(buf) = stored

\* a key_container_t.  revoked is not a field of the structure: it remembers
\* that key_mgmt_revoke_key has returned 0 for this key
StoreKey(key_id, type, purpose, t, lifetime, size) ==
    [key_id |-> key_id, type |-> type, purpose |-> purpose, creation_time |-> t,
     rotation_time |-> t, expiration_time |-> t + lifetime, version |-> 1,
     is_active |-> TRUE, key_material_size |-> size, revoked |-> FALSE]

EmptyStorage == [initialized |-> FALSE, keys |-> <<>>]

\* generate_key_material: the size of the material, or 0 for an unknown type
KeyMaterialSize(type) ==
    CASE type = "AES" -> 32
      [] type = "KYBER" -> 1632
      [] type = "FALCON" -> 1281
      [] type = "HYBRID" -> 1632 + 32
      [] OTHER -> 0

\* find_key_by_id: the index of the first key with this id, or 0
FindKeyById(store, buf) ==
    LET hits == {i \in 1..Len(store.keys) : StrcmpEqual(store.keys[i].key_id, buf)}
    IN IF hits = {} THEN 0 ELSE CHOOSE i \in hits : \A j \in hits : i <= j

\* find_active_key_by_purpose at time t: the index of the first key, or 0
FindActiveKeyByPurpose(store, purpose, t) ==
    LET hits == {i \in 1..Len(store.keys) :
                    /\ store.keys[i].purpose = purpose
                    /\ store.keys[i].is_active
                    /\ t < store.keys[i].expiration_time}
    IN IF hits = {} THEN 0 ELSE CHOOSE i \in hits : \A j \in hits : i <= j

\* a key_mgmt_rotate_key that makes the key it rotates active again
RotateKey_Reactivates(store, i, t) ==
    [store EXCEPT !.keys[i].rotation_time = t,
                  !.keys[i].expiration_time = t + DEFAULT_ROTATION_INTERVAL,
                  !.keys[i].version = @ + 1,
                  !.keys[i].is_active = TRUE]

\* key_mgmt_rotate_key, lines 224-233, on the key at index i
RotateKey(store, i, t) ==
    [store EXCEPT !.keys[i].rotation_time = t,
                  !.keys[i].expiration_time = t + DEFAULT_ROTATION_INTERVAL,
                  !.keys[i].version = @ + 1]

KmInit ==
    /\ g_key_storage = EmptyStorage
    /\ km_rand = 0
    /\ id_bufs = [b \in 1..MaxIdBufs |-> [i \in 1..KEY_ID_SIZE |-> 0]]

\* every call of the key store counts against the budget of the run
KmStep == sys_steps < MaxStoreSteps /\ sys_steps' = sys_steps + 1

KmLast(op, rc, b, purpose, found) ==
    [SysLast(op, rc) EXCEPT !.buf = b, !.purpose = purpose, !.found = found]

KmUnchanged == UNCHANGED <<leCore, parVars, crVars, hydra_initialized>>

\* key_mgmt_init(NULL)
key_mgmt_init ==
    /\ KmStep
    /\ g_key_storage' = IF g_key_storage.initialized THEN g_key_storage
                        ELSE [initialized |-> TRUE, keys |-> <<>>]
    /\ sys_last' = SysLast("key_mgmt_init", 0)
    /\ UNCHANGED <<km_rand, id_bufs>>
    /\ KmUnchanged

\* lines 90-152, 423-480 and 485-542: a new key of the given type, purpose
\* and lifetime is appended and its id is copied to the caller's buffer b.
\* generate_key_id writes one byte past new_key_id; the build decides
\* whether that byte lands in unused stack (intact) or the overrun ends the
\* process.  The store of the model holds at most MaxStoreKeys keys
NewKey(op, type, purpose, lifetime, b) ==
    /\ sys_steps < MaxStoreSteps
    /\ Len(g_key_storage.keys) < MaxStoreKeys
    /\ IF ~g_key_storage.initialized
       THEN /\ sys_last' = KmLast(op, -1, b, purpose, 0)
            /\ sys_steps' = sys_steps + 1
            /\ UNCHANGED kmVars
       ELSE \E intact \in BOOLEAN :
            LET new_key_id == GenerateKeyId(km_rand + 1)
            IN /\ km_rand' = km_rand + 1
               /\ IF ~intact
                  THEN /\ sys_last' = [KmLast(op, 0, b, purpose, 0)
                                          EXCEPT !.op = "abort", !.crashed = TRUE]
                       /\ sys_steps' = MaxStoreSteps
                       /\ UNCHANGED <<g_key_storage, id_bufs>>
                  ELSE IF KeyMaterialSize(type) = 0
                  THEN /\ sys_last' = KmLast(op, -4, b, purpose, 0)
                       /\ sys_steps' = sys_steps + 1
                       /\ UNCHANGED <<g_key_storage, id_bufs>>
                  ELSE /\ g_key_storage' =
                              [g_key_storage EXCEPT !.keys =
                                  Append(@, StoreKey(StoredKeyId(new_key_id), type,
                                                     purpose, now, lifetime,
                                                     KeyMaterialSize(type)))]
                       /\ id_bufs' = [id_bufs EXCEPT
                                         ![b] = Strncpy(new_key_id, KEY_ID_SIZE)]
                       /\ sys_last' = KmLast(op, 0, b, purpose,
                                             Len(g_key_storage.keys) + 1)
                       /\ sys_steps' = sys_steps + 1
    /\ KmUnchanged

\* key_mgmt_create_key(type, purpose, id_bufs[b])
key_mgmt_create_key(type, purpose, b) ==
    NewKey("key_mgmt_create_key", type, purpose, DEFAULT_ROTATION_INTERVAL, b)

\* key_mgmt_generate_ephemeral_key(purpose, lifetime_seconds, id_bufs[b])
key_mgmt_generate_ephemeral_key(purpose, lifetime_seconds, b) ==
    NewKey("key_mgmt_generate_ephemeral_key", "AES", purpose, lifetime_seconds, b)

\* key_mgmt_establish_shared_key(peer_public_key, size, id_bufs[b])
key_mgmt_establish_shared_key(b) ==
    NewKey("key_mgmt_establish_shared_key", "AES", "EPHEMERAL", SHARED_KEY_LIFETIME, b)

\* key_mgmt_get_key_metadata(id_bufs[b], &metadata)
key_mgmt_get_key_metadata(b) ==
    /\ KmStep
    /\ LET i == FindKeyById(g_key_storage, id_bufs[b])
       IN sys_last' = KmLast("key_mgmt_get_key_metadata",
                             IF ~g_key_storage.initialized THEN -1
                             ELSE IF i = 0 THEN -2 ELSE 0,
                             b, "none", IF g_key_storage.initialized THEN i ELSE 0)
    /\ UNCHANGED kmVars
    /\ KmUnchanged

\* key_mgmt_get_active_key(purpose, id_bufs[b])
key_mgmt_get_active_key(purpose, b) ==
    /\ KmStep
    /\ LET i == FindActiveKeyByPurpose(g_key_storage, purpose, now)
       IN IF ~g_key_storage.initialized
          THEN /\ sys_last' = KmLast("key_mgmt_get_active_key", -1, b, purpose, 0)
               /\ UNCHANGED id_bufs
          ELSE IF i = 0
          THEN /\ sys_last' = KmLast("key_mgmt_get_active_key", -2, b, purpose, 0)
               /\ UNCHANGED id_bufs
          ELSE /\ sys_last' = KmLast("key_mgmt_get_active_key", 0, b, purpose, i)
               /\ id_bufs' = [id_bufs EXCEPT
                                 ![b] = Strncpy(g_key_storage.keys[i].key_id, KEY_ID_SIZE)]
    /\ UNCHANGED <<g_key_storage, km_rand>>
    /\ KmUnchanged

\* key_mgmt_rotate_key(id_bufs[b])
key_mgmt_rotate_key(b) ==
    /\ KmStep
    /\ LET i == FindKeyById(g_key_storage, id_bufs[b])
       IN IF ~g_key_storage.initialized
          THEN /\ sys_last' = KmLast("key_mgmt_rotate_key", -1, b, "none", 0)
               /\ UNCHANGED g_key_storage
          ELSE IF i = 0
          THEN /\ sys_last' = KmLast("key_mgmt_rotate_key", -2, b, "none", 0)
               /\ UNCHANGED g_key_storage
          ELSE /\ sys_last' = KmLast("key_mgmt_rotate_key", 0, b, "none", i)
               /\ g_key_storage' = RotateKey(g_key_storage, i, now)
    /\ UNCHANGED <<km_rand, id_bufs>>
    /\ KmUnchanged

\* key_mgmt_revoke_key(id_bufs[b])
key_mgmt_revoke_key(b) ==
    /\ KmStep
    /\ LET i == FindKeyById(g_key_storage, id_bufs[b])
       IN IF ~g_key_storage.initialized
          THEN /\ sys_last' = KmLast("key_mgmt_revoke_key", -1, b, "none", 0)
               /\ UNCHANGED g_key_storage
          ELSE IF i = 0
          THEN /\ sys_last' = KmLast("key_mgmt_revoke_key", -2, b, "none", 0)
               /\ UNCHANGED g_key_storage
          ELSE /\ sys_last' = KmLast("key_mgmt_revoke_key", 0, b, "none", i)
               /\ g_key_storage' = [g_key_storage EXCEPT !.keys[i].is_active = FALSE,
                                                         !.keys[i].revoked = TRUE]
    /\ UNCHANGED <<km_rand, id_bufs>>
    /\ KmUnchanged

\* key_mgmt_cleanup()
key_mgmt_cleanup ==
    /\ KmStep
    /\ g_key_storage' = IF g_key_storage.initialized THEN EmptyStorage
                        ELSE g_key_storage
    /\ sys_last' = SysLast("key_mgmt_cleanup", 0)
    /\ UNCHANGED <<km_rand, id_bufs>>
    /\ KmUnchanged

(***************************************************************************)
(* Inputs of the callers.                                                  *)
(***************************************************************************)
\* "hello world"
HelloWorld == <<104, 101, 108, 108, 111, 32, 119, 111, 114, 108, 100>>

Messages == {FalconTestMessage, AdapterTestMessage, HelloWorld}

FlipAt(m, pos, bit) == [m EXCEPT ![pos] = FlipBit(@, bit)]

\* a message and the messages one bit away from it at its first, middle and
\* last byte
Variants(m) ==
    IF m = <<>> THEN {m}
    ELSE {m} \cup {FlipAt(m, pos, 0) : pos \in {1, (Len(m) \div 2) + 1, Len(m)}}

\* "s3cret"
S3cret == <<115, 51, 99, 114, 101, 116>>

\* "s3cret", and a secret of size 0
Secrets == {S3cret, <<>>}

\* "pub", "pub-tampered", the literal of the verifier, and the literal with
\* its last byte changed
PublicInputs ==
    {<<112, 117, 98>>,
     <<112, 117, 98, 45, 116, 97, 109, 112, 101, 114, 101, 100>>,
     test_public_input,
     [test_public_input EXCEPT ![29] = 109]}

\* the public inputs proofs are made for
SignedInputs == {<<112, 117, 98>>, test_public_input}

AllPollsOk == <<TRUE, TRUE, TRUE>>
PqParams == [use_pq_crypto |-> TRUE, use_hybrid |-> TRUE, key_storage_path |-> "NULL"]
ClassicParams == [use_pq_crypto |-> FALSE, use_hybrid |-> FALSE, key_storage_path |-> "NULL"]

(***************************************************************************)
(* Two threads in le_calculate_node_hash (lines 131-192), statement by     *)
(* statement.  The caller has built node 1 and node 2, one per thread, and *)
(* node 3, a leaf that node 1 depends on and node 2 may depend on too.     *)
(* The engine takes no lock anywhere.                                      *)
(***************************************************************************)
Threads == {1, 2}
ParNodes == {1, 2, 3}
SharedDep == CHOOSE n \in ParNodes : n \notin Threads

\* the node a thread is given
ParRoot(t) == t

\* node->data: "x", "y" and "z"
ParData(n) == <<119 + n>>

\* node->hash: NULL, a buffer malloc has returned and nothing has written,
\* a buffer holding a digest, or a pointer to a buffer that was freed
NullHash == [st |-> "null", bytes |-> <<>>]
Unfilled(fill) == [st |-> "unfilled", bytes |-> UninitBuffer(fill)]
Filled(digest) == [st |-> "filled", bytes |-> digest]

\* what le_calculate_node_hash leaves in node->hash when nothing else runs
SequentialDigest(n) ==
    SHA256(ParData(n)
           \o Concat([i \in 1..Len(par_deps[n]) |-> SHA256(ParData(par_deps[n][i]))]))

ParIdle ==
    /\ par_started = FALSE
    /\ par_deps = [n \in ParNodes |-> <<>>]
    /\ par_hash = [n \in ParNodes |-> NullHash]
    /\ par_stack = [t \in Threads |-> <<>>]
    /\ par_done = [t \in Threads |-> FALSE]
    /\ par_ret = [t \in Threads |-> 0]
    /\ par_bad = {}
    /\ par_crashed = FALSE

Frame(n) == [node |-> n, pc |-> "enter", i |-> 1, ctx |-> <<>>]

\* le_create_node three times, le_add_dependency, optionally
\* le_calculate_node_hash on the leaf, and then the two threads start
ParSetup(shared, precomputed) ==
    /\ le_initialized
    /\ ~par_started
    /\ par_started' = TRUE
    /\ par_deps' = [n \in ParNodes |->
                      IF n = 1 \/ (n = 2 /\ shared) THEN <<SharedDep>> ELSE <<>>]
    /\ par_hash' = [n \in ParNodes |->
                      IF n = SharedDep /\ precomputed
                      THEN Filled(SHA256(ParData(n))) ELSE NullHash]
    /\ par_stack' = [t \in Threads |-> <<Frame(ParRoot(t))>>]
    /\ UNCHANGED <<par_done, par_ret, par_bad, par_crashed, leCore, crVars, sysVars>>

Top(t) == par_stack[t][Len(par_stack[t])]
At(t, pc) == par_started /\ ~par_crashed /\ par_stack[t] # <<>> /\ Top(t).pc = pc
Goto(t, pc) == par_stack' = [par_stack EXCEPT ![t][Len(par_stack[t])].pc = pc]

\* return rc: the caller's loop goes on after a 0 and returns anything else
\* (lines 161-164); the outermost call hands rc to the thread
ParReturn(t, rc) ==
    LET rest == SubSeq(par_stack[t], 1, Len(par_stack[t]) - 1)
    IN IF rest = <<>> \/ rc # 0
       THEN /\ par_stack' = [par_stack EXCEPT ![t] = <<>>]
            /\ par_done' = [par_done EXCEPT ![t] = TRUE]
            /\ par_ret' = [par_ret EXCEPT ![t] = rc]
       ELSE /\ par_stack' = [par_stack EXCEPT ![t] = [rest EXCEPT ![Len(rest)].i = @ + 1]]
            /\ UNCHANGED <<par_done, par_ret>>

\* lines 132-137: the argument check and the test of node->hash
ParEnter(t) ==
    /\ At(t, "enter")
    /\ IF ~le_initialized
       THEN ParReturn(t, -1)
       ELSE /\ Goto(t, IF par_hash[Top(t).node].st # "null" THEN "free" ELSE "malloc")
            /\ UNCHANGED <<par_done, par_ret>>
    /\ UNCHANGED <<par_started, par_deps, par_hash, par_bad, par_crashed, leCore, crVars, sysVars>>

\* line 138: free(node->hash)
ParFree(t) ==
    /\ At(t, "free")
    /\ LET n == Top(t).node
       IN /\ par_bad' = IF par_hash[n].st = "freed"
                        THEN par_bad \cup {"double_free"} ELSE par_bad
          /\ par_hash' = IF par_hash[n].st = "null" THEN par_hash
                         ELSE [par_hash EXCEPT ![n].st = "freed"]
    /\ Goto(t, "clear")
    /\ UNCHANGED <<par_started, par_deps, par_done, par_ret, par_crashed, leCore, crVars, sysVars>>

\* lines 139-140: node->hash = NULL; node->hash_size = 0
ParClear(t) ==
    /\ At(t, "clear")
    /\ par_hash' = [par_hash EXCEPT ![Top(t).node] = NullHash]
    /\ Goto(t, "malloc")
    /\ UNCHANGED <<par_started, par_deps, par_done, par_ret, par_bad, par_crashed,
                   leCore, crVars, sysVars>>

\* lines 144-155: node->hash = malloc(32), return -2 if it failed, set
\* hash_size, and branch on dep_count
ParMalloc(t, ok, fill) ==
    /\ At(t, "malloc")
    /\ LET n == Top(t).node
       IN IF ~ok
          THEN /\ par_hash' = [par_hash EXCEPT ![n] = NullHash]
               /\ ParReturn(t, -2)
          ELSE /\ par_hash' = [par_hash EXCEPT ![n] = Unfilled(fill)]
               /\ Goto(t, IF Len(par_deps[n]) = 0 THEN "leaf" ELSE "loop")
               /\ UNCHANGED <<par_done, par_ret>>
    /\ UNCHANGED <<par_started, par_deps, par_bad, par_crashed, leCore, crVars, sysVars>>

\* SHA256(..., node->hash) and SHA256_Final(node->hash, ...): the digest goes
\* where node->hash points now, and the call returns 0
ParWrite(t, digest) ==
    LET n == Top(t).node
    IN IF par_hash[n].st = "null"
       THEN /\ par_crashed' = TRUE
            /\ par_bad' = par_bad \cup {"null_write"}
            /\ UNCHANGED <<par_hash, par_stack, par_done, par_ret>>
       ELSE IF par_hash[n].st = "freed"
       THEN /\ par_bad' = par_bad \cup {"use_after_free"}
            /\ ParReturn(t, 0)
            /\ UNCHANGED <<par_hash, par_crashed>>
       ELSE /\ par_hash' = [par_hash EXCEPT ![n] = Filled(digest)]
            /\ ParReturn(t, 0)
            /\ UNCHANGED <<par_bad, par_crashed>>

\* lines 152-155: a node without dependencies
ParLeaf(t) ==
    /\ At(t, "leaf")
    /\ ParWrite(t, SHA256(ParData(Top(t).node)))
    /\ UNCHANGED <<par_started, par_deps, leCore, crVars, sysVars>>

\* lines 158-166: one turn of the loop that computes missing dependency
\* digests; after the last turn SHA256_Init and the update with node->data
\* (lines 169-177)
ParLoop(t) ==
    /\ At(t, "loop")
    /\ LET f == Top(t)
           top == Len(par_stack[t])
       IN IF f.i > Len(par_deps[f.node])
          THEN par_stack' = [par_stack EXCEPT ![t][top] =
                                [f EXCEPT !.pc = "update", !.i = 1,
                                          !.ctx = ParData(f.node)]]
          ELSE IF par_hash[par_deps[f.node][f.i]].st = "null"
          THEN par_stack' = [par_stack EXCEPT ![t] =
                                Append(@, Frame(par_deps[f.node][f.i]))]
          ELSE par_stack' = [par_stack EXCEPT ![t][top].i = f.i + 1]
    /\ UNCHANGED <<par_started, par_deps, par_hash, par_done, par_ret, par_bad,
                   par_crashed, leCore, crVars, sysVars>>

\* lines 180-184: SHA256_Update with deps[i]->hash and deps[i]->hash_size,
\* which is 0 for a NULL hash
ParUpdate(t) ==
    /\ At(t, "update")
    /\ LET f == Top(t)
           top == Len(par_stack[t])
       IN IF f.i > Len(par_deps[f.node])
          THEN Goto(t, "final") /\ UNCHANGED par_bad
          ELSE LET h == par_hash[par_deps[f.node][f.i]]
               IN /\ par_stack' = [par_stack EXCEPT ![t][top] =
                                      [f EXCEPT !.i = f.i + 1, !.ctx = f.ctx \o h.bytes]]
                  /\ par_bad' = IF h.st = "unfilled"
                                THEN par_bad \cup {"read_before_filled"}
                                ELSE IF h.st = "freed"
                                THEN par_bad \cup {"use_after_free"}
                                ELSE par_bad
    /\ UNCHANGED <<par_started, par_deps, par_hash, par_done, par_ret, par_crashed,
                   leCore, crVars, sysVars>>

\* lines 187-191: SHA256_Final into node->hash
ParFinal(t) ==
    /\ At(t, "final")
    /\ ParWrite(t, SHA256(Top(t).ctx))
    /\ UNCHANGED <<par_started, par_deps, leCore, crVars, sysVars>>

\* the calls of the engine's interface
LEApiNext ==
    \/ le_init
    \/ le_cleanup
    \/ \E data \in Payloads, plan \in AllocPlans : le_create_node(data, plan)
    \/ \E n, d \in NodeIds, plan \in AllocPlans : le_add_dependency(n, d, plan)
    \/ \E n \in NodeIds, plan \in AllocPlans, fill \in UninitFills :
          le_calculate_node_hash(n, plan, fill)
    \/ \E list \in GraphNodeLists, plan \in AllocPlans : le_create_graph(list, plan)
    \/ le_free_graph
    \/ \E plan \in AllocPlans, fill \in UninitFills : le_calculate_root_hash(plan, fill)

\* the interface, graph verification and a caller that overwrites payloads
LENext ==
    \/ le_init
    \/ le_cleanup
    \/ \E data \in Payloads, plan \in AllocPlans : le_create_node(data, plan)
    \/ \E n, d \in NodeIds, plan \in AllocPlans : le_add_dependency(n, d, plan)
    \/ \E n \in NodeIds, plan \in AllocPlans, fill \in UninitFills :
          le_calculate_node_hash(n, plan, fill)
    \/ \E list \in GraphNodeLists, plan \in AllocPlans : le_create_graph(list, plan)
    \/ le_free_graph
    \/ \E plan \in AllocPlans, fill \in UninitFills : le_calculate_root_hash(plan, fill)
    \/ \E plan \in AllocPlans, fill \in UninitFills : le_verify_graph(plan, fill)
    \/ \E n \in NodeIds, bit \in TamperedBits : TamperPayload(n, 1, bit)

\* signatures: the Falcon primitive and the adapter's signature calls
SigNext ==
    \/ \E ok \in BOOLEAN : falcon_init(ok)
    \/ \E r \in RandSeeds : falcon_keygen(r)
    \/ \E m \in Messages, r \in RandSeeds : falcon_sign(m, r)
    \/ \E m \in Variants(sig_out.message) : falcon_verify(m)
    \/ \E params \in {PqParams, ClassicParams} : crypto_adapter_init(params, AllPollsOk)
    \/ \E k \in KeySlots, t \in {"FALCON", "SYMMETRIC"}, ttl \in 0..MaxTtl, r \in RandSeeds :
          crypto_generate_key(k, t, ttl, r)
    \/ \E k \in KeySlots, m \in Messages, r \in RandSeeds : crypto_sign_message(k, m, r)
    \/ \E k \in KeySlots, m \in Variants(sig_out.message) : crypto_verify_signature(k, m)
    \/ Tick

\* key encapsulation: the Kyber primitive and the adapter's key exchange
KemNext ==
    \/ \E ok \in BOOLEAN : kyber_init(ok)
    \/ \E r \in RandSeeds : kyber_keygen(r)
    \/ kyber_encapsulate
    \/ kyber_decapsulate
    \/ \E params \in {PqParams, ClassicParams} : crypto_adapter_init(params, AllPollsOk)
    \/ \E k \in KeySlots, t \in {"KYBER", "SYMMETRIC"}, ttl \in 0..MaxTtl, r \in RandSeeds :
          crypto_generate_key(k, t, ttl, r)
    \/ \E k \in KeySlots : crypto_establish_key(k)
    \/ \E k \in KeySlots : crypto_receive_key(k)
    \/ Tick

\* signed zero-knowledge proofs through the adapter
ZkNext ==
    \/ \E params \in {PqParams, ClassicParams} : crypto_adapter_init(params, AllPollsOk)
    \/ \E k \in KeySlots, t \in {"FALCON", "SYMMETRIC"}, r \in RandSeeds :
          crypto_generate_key(k, t, 0, r)
    \/ \E secret \in Secrets, p \in SignedInputs, k \in {0} \cup KeySlots, r \in RandSeeds :
          crypto_generate_zkproof(secret, p, k, r)
    \/ \E p \in PublicInputs, k \in {0} \cup KeySlots, alloc_ok \in BOOLEAN :
          crypto_verify_zkproof(p, k, alloc_ok)
    \/ \E f \in ProofFields, pos \in {1, 42} : TamperProof(f, pos)

\* every way RAND_poll can go in qzkp_init, kyber_init and falcon_init
Polls == {<<a, b, c>> : a, b, c \in BOOLEAN}

\* the configurations a caller can pass, without a storage path
LifeParams == {p \in AdapterParams : p.key_storage_path = "NULL"}

\* the adapter's life: init, every operation, cleanup, and a caller that
\* creates an entanglement node relying on the adapter's init
LifeNext ==
    \/ \E params \in LifeParams, polls \in Polls : crypto_adapter_init(params, polls)
    \/ crypto_adapter_cleanup
    \/ PeerData
    \/ \E t \in KeyTypes : crypto_generate_key(1, t, 0, 1)
    \/ crypto_free_key(1)
    \/ crypto_sign_message(1, HelloWorld, 1)
    \/ crypto_verify_signature(1, sig_out.message)
    \/ crypto_establish_key(1)
    \/ crypto_receive_key(1)
    \/ \E k \in {0, 1} : crypto_generate_zkproof(<<115, 51, 99, 114, 101, 116>>,
                                                 <<112, 117, 98>>, k, 1)
    \/ \E k \in {0, 1} : crypto_verify_zkproof(<<112, 117, 98>>, k, TRUE)
    \/ \E data \in Payloads : le_steps = 0 /\ le_create_node(data, [fail |-> FALSE, at |-> 0])

\* two threads computing digests after le_init
\* the values of expires_in_seconds a caller passes: none, some seconds, and
\* the largest uint64_t, 2^64 - 1
TtlInputs == (0..MaxTtl) \cup {-1}

\* keys with a lifetime, used while time passes
ExpiryNext ==
    \/ crypto_adapter_init([use_pq_crypto |-> TRUE, use_hybrid |-> TRUE,
                            key_storage_path |-> "NULL"], <<TRUE, TRUE, TRUE>>)
    \/ \E t \in {"FALCON", "KYBER"}, ttl \in TtlInputs : crypto_generate_key(1, t, ttl, 1)
    \/ crypto_sign_message(1, HelloWorld, 1)
    \/ crypto_establish_key(1)
    \/ crypto_generate_zkproof(S3cret, test_public_input, 1, 1)
    \/ Tick

\* the buffers and sizes a caller of the proof interface passes: a size is
\* 0, 1, the length of a digest, or 2^64 - 1
BufArgs == {Buf(null, size) : null \in BOOLEAN, size \in {0, SHA256_DIGEST_LENGTH}}
RawProofs == {RawProof(c, ch, r) : c, ch, r \in BufArgs}
WireSizes == {0, 1, SHA256_DIGEST_LENGTH, -1}
WireLens == {8, WireHeader, WireHeader + SHA256_DIGEST_LENGTH,
             WireHeader + SHA256_DIGEST_LENGTH + 1}

\* proofs handed over as structures and as serialized bytes
WireNext ==
    \/ \E polls \in {<<TRUE, TRUE, TRUE>>, <<TRUE, FALSE, TRUE>>} : hydra_init(polls)
    \/ hydra_cleanup
    \/ \E proof \in RawProofs, public \in {NoBuf, Buf(FALSE, 3), Buf(TRUE, 3)},
          has_params, alloc_ok \in BOOLEAN :
          qzkp_verify_proof(proof, public, has_params, alloc_ok)
    \/ \E proof_len \in WireLens, c, ch, r \in WireSizes,
          public \in {NoBuf, Buf(FALSE, 3)}, fail_at \in 0..4 :
          hydra_verify_zkproof(proof_len, c, ch, r, public, fail_at)

ParNext ==
    \/ le_init
    \/ \E shared, precomputed \in BOOLEAN : ParSetup(shared, precomputed)
    \/ \E t \in Threads : ParEnter(t)
    \/ \E t \in Threads : ParFree(t)
    \/ \E t \in Threads : ParClear(t)
    \/ \E t \in Threads, ok \in BOOLEAN, fill \in UninitFills : ParMalloc(t, ok, fill)
    \/ \E t \in Threads : ParLeaf(t)
    \/ \E t \in Threads : ParLoop(t)
    \/ \E t \in Threads : ParUpdate(t)
    \/ \E t \in Threads : ParFinal(t)

Init == LEInit /\ CrInit /\ ParIdle /\ SysInit /\ KmInit

SpecLE == Init /\ [][LENext]_vars
SpecLEApi == Init /\ [][LEApiNext]_vars
SpecSig == Init /\ [][SigNext]_vars
SpecKem == Init /\ [][KemNext]_vars
SpecZk == Init /\ [][ZkNext]_vars
SpecPar == Init /\ [][ParNext]_vars
SpecLife == Init /\ [][LifeNext]_vars
SpecExpiry == Init /\ [][ExpiryNext]_vars
SpecWire == Init /\ [][WireNext]_vars

\* the key store and its callers: keys are made, looked up by the id the
\* caller was handed or by purpose, rotated and revoked, while time passes
IdBufs == 1..MaxIdBufs
StorePurposes == {"IDENTITY", "EPHEMERAL"}
StoreTypes == {"AES", "INVALID"}
EphemeralLifetimes == {1, SHARED_KEY_LIFETIME}
StoreNext ==
    \/ key_mgmt_init
    \/ \E type \in StoreTypes, purpose \in StorePurposes, b \in IdBufs :
          key_mgmt_create_key(type, purpose, b)
    \/ \E lifetime \in EphemeralLifetimes, b \in IdBufs :
          key_mgmt_generate_ephemeral_key("EPHEMERAL", lifetime, b)
    \/ \E b \in IdBufs : key_mgmt_establish_shared_key(b)
    \/ \E b \in IdBufs : key_mgmt_get_key_metadata(b)
    \/ \E purpose \in StorePurposes, b \in IdBufs : key_mgmt_get_active_key(purpose, b)
    \/ \E b \in IdBufs : key_mgmt_rotate_key(b)
    \/ \E b \in IdBufs : key_mgmt_revoke_key(b)
    \/ key_mgmt_cleanup
    \/ Tick
SpecStore == Init /\ [][StoreNext]_vars

\* the public init and cleanup functions of every layer, in any order
CycleNext ==
    \/ \E params \in LifeParams : crypto_adapter_init(params, AllPollsOk)
    \/ crypto_adapter_cleanup
    \/ hydra_init(AllPollsOk)
    \/ hydra_cleanup
    \/ \E poll_ok \in BOOLEAN : qzkp_init(poll_ok)
    \/ qzkp_cleanup
    \/ \E poll_ok \in BOOLEAN : kyber_init(poll_ok)
    \/ kyber_cleanup
    \/ \E poll_ok \in BOOLEAN : falcon_init(poll_ok)
    \/ falcon_cleanup
SpecCycle == Init /\ [][CycleNext]_vars

(***************************************************************************)
(* Claims about the logical entanglement engine.                           *)
(***************************************************************************)

\* C1: once le_calculate_root_hash has succeeded on a graph and one bit of
\* the payload of one of its nodes was then changed, with no other call in
\* between, le_verify_graph on that graph returns false.
C1_TamperDetected ==
    scenario = "verified" => le_last.rc = 0

\* C7: every node's cached digest is absent or is H(payload || the cached
\* digests of its dependencies, in the order they were added), in every
\* state the interface calls reach (checked where the dependencies have
\* digests to take).
C7_NodeDigestInvariant ==
    \A n \in NodeIds :
        (/\ nodes[n].alloc
         /\ nodes[n].hash # NULL
         /\ \A i \in 1..Len(nodes[n].deps) : nodes[nodes[n].deps[i]].hash # NULL)
        => nodes[n].hash = NodeDigest(nodes, n)

\* C9: le_add_dependency(node, dep) fails and leaves node's dependency list
\* as it was whenever node's digest has already been computed.
C9_FrozenNodeRejectsDependency ==
    [][\A n, d \in NodeIds, plan \in AllocPlans :
          (le_add_dependency(n, d, plan) /\ nodes[n].hash # NULL)
          => (le_last'.rc # 0 /\ nodes'[n].deps = nodes[n].deps)]_vars

\* the nodes that the nodes of S depend on directly
DirectDeps(S) ==
    UNION {{nodes[m].deps[i] : i \in 1..Len(nodes[m].deps)} : m \in S}

\* S and the nodes reached from it along at most k dependency edges
RECURSIVE Reach(_, _)
Reach(S, k) == IF k = 0 THEN S ELSE Reach(S \cup DirectDeps(S), k - 1)

\* C10: the dependency edges always form a directed acyclic graph: no node
\* depends on itself, directly or through other nodes.
C10_DependenciesAcyclic ==
    \A n \in NodeIds : n \notin Reach(DirectDeps({n}), MaxNodes)

\* C11: a le_calculate_node_hash or le_calculate_root_hash that returns a
\* non-zero code leaves the cached digest of every node and the root digest
\* of the graph as they were before the call.
C11_FailedComputeChangesNothing ==
    [][(/\ le_steps' = le_steps + 1
        /\ le_last'.op \in {"le_calculate_node_hash", "le_calculate_root_hash"}
        /\ le_last'.rc # 0)
       => (/\ \A n \in NodeIds : nodes'[n].hash = nodes[n].hash
           /\ graph'.root_hash = graph.root_hash)]_vars

\* n depends on itself, directly or through other nodes
OnCycle(n) == n \in Reach(DirectDeps({n}), MaxNodes)

\* a completed call of le_calculate_node_hash, with the engine initialized,
\* on a node that lies on a cycle of dependency edges
CalcOnCycle ==
    /\ le_steps' = le_steps + 1
    /\ le_last'.op = "le_calculate_node_hash"
    /\ le_initialized
    /\ OnCycle(le_last'.node)

C8_ParallelDigestsSafe ==
    /\ par_bad = {}
    /\ ~par_crashed
    /\ \A t \in Threads :
          (par_done[t] /\ par_ret[t] = 0) =>
              par_hash[ParRoot(t)] = Filled(SequentialDigest(ParRoot(t)))

(***************************************************************************)
(* Claims about signatures.                                                *)
(***************************************************************************)
\* the verification that was just made used the public key the signature in
\* sig_out was made for, through the same layer, with everything initialized
\* and the key within its lifetime
VerifiedWithSigningKey ==
    \/ /\ cr_last.op = "falcon_verify"
       /\ sig_out.by = "falcon_sign"
       /\ falcon_initialized
       /\ falcon_kp.public_key = sig_out.public_key
    \/ /\ cr_last.op = "crypto_verify_signature"
       /\ sig_out.by = "crypto_sign_message"
       /\ adapter_state.is_initialized /\ adapter_state.use_pq_crypto
       /\ falcon_initialized
       /\ keys[cr_last.key].type = "FALCON"
       /\ keys[cr_last.key].public_key = sig_out.public_key
       /\ ~KeyExpired(keys[cr_last.key], now)

OneBitApart(a, b) ==
    /\ Len(a) = Len(b)
    /\ Cardinality({i \in 1..Len(a) : a[i] # b[i]}) = 1
    /\ \A i \in 1..Len(a) : a[i] # b[i] => Xor(a[i], b[i]) \in {1, 2, 4, 8, 16, 32, 64, 128}

\* C2: verifying a signature over the message it was made for, under the
\* public key paired with the signing key, returns 1, through falcon_sign /
\* falcon_verify and through crypto_sign_message / crypto_verify_signature.
C2_SignatureRoundTrip ==
    (VerifiedWithSigningKey /\ cr_last.msg = sig_out.message) => cr_last.rc = 1

\* C3: verifying a signature against a message of the same length that
\* differs in exactly one bit from the signed one returns 0, whatever the
\* content of the message.
C3_TamperedMessageRejected ==
    (VerifiedWithSigningKey /\ OneBitApart(cr_last.msg, sig_out.message)) => cr_last.rc = 0

(***************************************************************************)
(* Claims about signed zero-knowledge proofs.                              *)
(***************************************************************************)
\* crypto_verify_zkproof has just run, with its allocation succeeding, on a
\* proof that crypto_generate_zkproof signed with a signature key
VerifiedSignedProof ==
    /\ cr_last.op = "crypto_verify_zkproof"
    /\ cr_last.alloc_ok
    /\ adapter_state.is_initialized /\ adapter_state.use_pq_crypto
    /\ zk_out.signed
    /\ cr_last.key # 0
    /\ keys[cr_last.key].type = "FALCON"

\* C4: a proof made for public input p with signature key K is accepted
\* with p and K, and rejected with K and any other public input.
C4_ProofBindsPublicInput ==
    (VerifiedSignedProof /\ ~zk_out.tampered
        /\ keys[cr_last.key].public_key = zk_out.public_key)
    => cr_last.rc = (IF cr_last.msg = zk_out.public_input THEN 1 ELSE 0)

\* C5: crypto_verify_zkproof with a signature key returns 1 only for a
\* proof whose embedded signature verifies under that key: a proof with a
\* changed byte in its commitment, challenge, response or embedded
\* signature, or a proof signed with another key, yields 0.
C5_VerifyChecksSignature ==
    (VerifiedSignedProof
        /\ (zk_out.tampered \/ keys[cr_last.key].public_key # zk_out.public_key))
    => cr_last.rc = 0

(***************************************************************************)
(* Claims about key encapsulation.                                         *)
(***************************************************************************)
\* a decapsulation has just succeeded on the ciphertext in kem_out with the
\* secret key paired with the public key it was encapsulated to
DecapsulatedWithPairedKey ==
    /\ cr_last.rc = 0
    /\ \/ cr_last.op = "kyber_decapsulate" /\ kyber_kp.public_key = kem_out.public_key
       \/ /\ cr_last.op = "crypto_receive_key"
          /\ keys[cr_last.key].public_key = kem_out.public_key

\* C6: decapsulating a ciphertext with the secret key paired with the
\* public key it was encapsulated to gives the 32-byte shared secret that
\* the encapsulation gave, through kyber_encapsulate / kyber_decapsulate and
\* through crypto_establish_key / crypto_receive_key.
C6_KemRoundTrip ==
    DecapsulatedWithPairedKey =>
        /\ Len(kem_out.received) = KYBER_SHARED_SECRET_BYTES
        /\ kem_out.received = kem_out.sent

\* crypto_receive_key has returned the secret crypto_establish_key gave
C6_Witness ==
    /\ DecapsulatedWithPairedKey
    /\ cr_last.op = "crypto_receive_key"
    /\ kem_out.received = kem_out.sent
    /\ Len(kem_out.sent) = KYBER_SHARED_SECRET_BYTES

(***************************************************************************)
(* Claims about the adapter's life cycle.                                  *)
(***************************************************************************)
\* the functions a call made into the primitives, in order
CalledFns(calls) == [i \in 1..Len(calls) |-> calls[i].fn]

\* C12: after crypto_adapter_init has returned 0 with use_pq_crypto set, the
\* ZKP engine, the entanglement engine, the KEM and the signature primitive
\* are initialized (so that le_create_node can succeed), and a call that did
\* the initialization made the four init calls in that order.
C12_InitInitializesAll ==
    (/\ cr_last.op = "crypto_adapter_init"
     /\ cr_last.rc = 0
     /\ adapter_state.use_pq_crypto)
    => /\ qzkp_initialized /\ le_initialized /\ kyber_initialized /\ falcon_initialized
       /\ cr_last.calls # <<>> =>
             CalledFns(cr_last.calls)
                 = <<"qzkp_init", "le_init", "kyber_init", "falcon_init">>

\* C13: a crypto_adapter_init in which the init of a subsystem fails returns
\* that subsystem's code, cleans up every subsystem it initialized before,
\* and leaves the adapter uninitialized with the configuration it had.
C13_InitFailureTearsDown ==
    [][(/\ cr_steps' = cr_steps + 1
        /\ cr_last'.op = "crypto_adapter_init"
        /\ cr_last'.rc # 0)
       => LET calls == cr_last'.calls
              inits == {i \in 1..Len(calls) :
                           calls[i].fn \in {"qzkp_init", "kyber_init", "falcon_init"}}
              failed == CHOOSE i \in inits : calls[i].rc # 0
              done == {calls[i].fn : i \in {j \in inits : calls[j].rc = 0}}
              undone == {calls[i].fn : i \in (failed + 1)..Len(calls)}
          IN /\ \E i \in inits : calls[i].rc # 0
             /\ cr_last'.rc = calls[failed].rc
             /\ adapter_state' = adapter_state
             /\ ~adapter_state'.is_initialized
             /\ "qzkp_init" \in done => ("qzkp_cleanup" \in undone /\ ~qzkp_initialized')
             /\ "kyber_init" \in done => ("kyber_cleanup" \in undone /\ ~kyber_initialized')
             /\ "falcon_init" \in done
                   => ("falcon_cleanup" \in undone /\ ~falcon_initialized')]_vars

\* falcon_init has failed inside crypto_adapter_init after the ZKP engine
\* and the KEM had been initialized, and both are cleaned up again
C13_Witness ==
    /\ cr_last.op = "crypto_adapter_init"
    /\ cr_last.rc # 0
    /\ CalledFns(cr_last.calls)
          = <<"qzkp_init", "kyber_init", "falcon_init", "kyber_cleanup", "qzkp_cleanup">>
    /\ ~qzkp_initialized /\ ~kyber_initialized /\ ~adapter_state.is_initialized

\* C14: crypto_adapter_cleanup on an initialized adapter cleans the
\* subsystems up in the reverse of the order init initialized them in
\* (signature, KEM, ZKP) and leaves adapter_state at its value before init.
C14_CleanupReversesInit ==
    [][(/\ cr_steps' = cr_steps + 1
        /\ cr_last'.op = "crypto_adapter_cleanup"
        /\ adapter_state.is_initialized)
       => /\ adapter_state' = AdapterDefault
          /\ ~qzkp_initialized'
          /\ CalledFns(cr_last'.calls)
                = (IF adapter_state.use_pq_crypto
                   THEN <<"falcon_cleanup", "kyber_cleanup", "qzkp_cleanup">>
                   ELSE <<"qzkp_cleanup">>)
          /\ adapter_state.use_pq_crypto
                => (~falcon_initialized' /\ ~kyber_initialized')]_vars

\* crypto_adapter_cleanup has run on an adapter that was initialized with
\* post-quantum crypto
C14_Witness ==
    /\ cr_last.op = "crypto_adapter_cleanup"
    /\ CalledFns(cr_last.calls) = <<"falcon_cleanup", "kyber_cleanup", "qzkp_cleanup">>
    /\ adapter_state = AdapterDefault
    /\ ~falcon_initialized /\ ~kyber_initialized /\ ~qzkp_initialized

(***************************************************************************)
(* Claims about the adapter's error handling.                              *)
(***************************************************************************)
KeyedOps ==
    {"crypto_sign_message", "crypto_verify_signature", "crypto_establish_key",
     "crypto_receive_key", "crypto_generate_zkproof", "crypto_verify_zkproof"}

AdapterOps == KeyedOps \cup {"crypto_generate_key"}

\* C15: while the adapter is uninitialized, each of generate_key,
\* sign_message, verify_signature, establish_key, receive_key,
\* generate_zkproof and verify_zkproof returns -1 and changes neither the
\* caller's key and output buffers nor the state of any engine
C15_UninitializedOpsFail ==
    [][(cr_steps' = cr_steps + 1 /\ ~adapter_state.is_initialized
        /\ cr_last'.op \in AdapterOps)
       => (/\ cr_last'.rc = -1
           /\ UNCHANGED <<keys, sig_out, kem_out, zk_out, initFlags, falcon_kp,
                          kyber_kp, leCore>>)]_vars

\* after a cleanup, signing with a key issued before it is refused
C15_Witness ==
    /\ cr_last.op = "crypto_sign_message"
    /\ cr_last.rc = -1
    /\ ~adapter_state.is_initialized
    /\ keys[1].type = "FALCON"
    /\ keys[1].secret_key # <<>>
    /\ sig_out.by # "crypto_sign_message"

\* the key's lifetime is over at time t: t is later than creation_time +
\* expires_in_seconds, the sum of the two numbers.  The times of a run are far
\* below 2^64, so none is later than a sum with expires_in_seconds = 2^64 - n
PastLifetime(key, t) ==
    key.expires_in_seconds > 0 /\ t > key.creation_time + key.expires_in_seconds

\* C16: crypto_sign_message and crypto_establish_key, given a key of their
\* kind generated with ttl > 0 at time t0, return -3 at every time later than
\* t0 + ttl and do not return -3 at any time up to t0 + ttl; a key generated
\* with ttl = 0 never fails for expiry; and once a use of a key has returned
\* -3, the next use of that key returns -3 too
C16_ExpiryObservedOnUse ==
    [][(/\ cr_steps' = cr_steps + 1
        /\ adapter_state.is_initialized
        /\ \/ cr_last'.op = "crypto_sign_message" /\ keys[1].type = "FALCON"
           \/ cr_last'.op = "crypto_establish_key" /\ keys[1].type = "KYBER")
       => (/\ (cr_last'.rc = -3) <=> PastLifetime(keys[1], now)
           /\ (cr_last.rc = -3 /\ cr_last.op = cr_last'.op) => cr_last'.rc = -3)]_vars

AllZero(bytes) == \A i \in 1..Len(bytes) : bytes[i] = 0

\* C17: crypto_free_key leaves zeros in every block it releases, the one of
\* the 16-byte identifier and the one of the secret bytes, and zeros in the
\* key structure, whatever the kind of the key
C17_FreeKeyWipes ==
    [][(cr_steps' = cr_steps + 1 /\ cr_last'.op = "crypto_free_key"
        /\ keys[1].key_id_ptr = "live")
       => (/\ \A i \in 1..Len(cr_last'.released) : AllZero(cr_last'.released[i].bytes)
           /\ keys'[1] = ZeroKey)]_vars

\* the codes crypto_sign_message returns for the failures it finds itself
SignCodes ==
    [not_initialized |-> -1, wrong_kind |-> -2, expired |-> -3, too_small |-> -4]

\* what makes crypto_sign_message fail when it is given keys[1] and a buffer
\* of FALCON_SIGNATURE_MAX_BYTES bytes: the first of its own tests that
\* fails, and the primitive when all of them pass
SignCause ==
    IF ~adapter_state.is_initialized THEN "not_initialized"
    ELSE IF keys[1].type # "FALCON" THEN "wrong_kind"
    ELSE IF KeyExpired(keys[1], now) THEN "expired"
    ELSE "primitive"

\* C18: the code of a failed crypto_sign_message tells its cause: it is not
\* the code of not-initialized, wrong key kind, expired key or buffer too
\* small unless that is what made the call fail, so that a failure of the
\* primitive never returns one of these four codes
C18_ErrorCodesDistinct ==
    [][(cr_steps' = cr_steps + 1 /\ cr_last'.op = "crypto_sign_message"
        /\ cr_last'.rc < 0)
       => \A c \in DOMAIN SignCodes : cr_last'.rc = SignCodes[c] => c = SignCause]_vars

\* the kind of key each operation works with
RequiredKind ==
    [crypto_sign_message |-> "FALCON", crypto_verify_signature |-> "FALCON",
     crypto_establish_key |-> "KYBER", crypto_receive_key |-> "KYBER",
     crypto_generate_zkproof |-> "FALCON", crypto_verify_zkproof |-> "FALCON"]

\* C19: sign_message, verify_signature, establish_key, receive_key,
\* generate_zkproof and verify_zkproof, given a key whose kind is not the
\* one the operation requires, return an error, a negative code, and never
\* a result
C19_WrongKindIsError ==
    [][(/\ cr_steps' = cr_steps + 1
        /\ cr_last'.op \in KeyedOps
        /\ cr_last'.key # 0
        /\ keys[cr_last'.key].type # RequiredKind[cr_last'.op])
       => cr_last'.rc < 0]_vars

\* C20: crypto_adapter_init called with use_pq_crypto = false and
\* use_hybrid = true on an uninitialized adapter returns an error and leaves
\* the adapter uninitialized: a call that returns 0, which stores the
\* parameters it was given in adapter_state, was not given this pair
C20_IllegalConfigRejected ==
    [][(/\ cr_steps' = cr_steps + 1
        /\ cr_last'.op = "crypto_adapter_init"
        /\ ~adapter_state.is_initialized
        /\ cr_last'.rc = 0)
       => ~(~adapter_state'.use_pq_crypto /\ adapter_state'.use_hybrid)]_vars

(***************************************************************************)
(* Claims about proofs handed over as structures and as bytes.             *)
(***************************************************************************)
\* all three fields present with a size above 0, and a response of the
\* length of a digest
WellFormed(proof) ==
    /\ \A b \in {proof.commitment, proof.challenge, proof.response} :
           ~b.null /\ b.size > 0
    /\ proof.response.size = SHA256_DIGEST_LENGTH

\* C21: qzkp_verify_proof returns true only for a proof whose commitment,
\* challenge and response are all present with a size above 0 and whose
\* response has the 32 bytes of a digest, and it returns false, without
\* ending the process, for every other proof
C21_VerifyAcceptsOnlyWellFormed ==
    sys_last.op = "qzkp_verify_proof"
        => (/\ ~sys_last.crashed
            /\ sys_last.rc = 1 => WellFormed(sys_last.proof))

\* the sizes a serialized proof declares need more bytes than proof_len: one
\* of them is 2^64 - n, or header and fields together are longer
DeclaresTooMuch(proof, proof_len) ==
    \/ \E b \in {proof.commitment, proof.challenge, proof.response} : b.size < 0
    \/ WireHeader + proof.commitment.size + proof.challenge.size + proof.response.size
           > proof_len

\* C28: hydra_verify_zkproof reads only bytes of the buffer at offsets below
\* proof_len, whatever the three sizes in the buffer are, and returns an
\* error for a buffer whose sizes declare more than proof_len bytes
C28_VerifyReadsInsideBuffer ==
    sys_last.op = "hydra_verify_zkproof"
        => (/\ sys_last.read_end <= sys_last.proof_len
            /\ DeclaresTooMuch(sys_last.proof, sys_last.proof_len) => sys_last.rc < 0)

(***************************************************************************)
(* Claims about the key store.                                             *)
(***************************************************************************)
\* the last call was a key_mgmt_create_key that returned 0, and the key it
\* made is still in the store
JustCreated ==
    /\ sys_last.op = "key_mgmt_create_key"
    /\ sys_last.rc = 0

\* the step is a lookup by id with the buffer the last call wrote
LookupOfLastBuffer ==
    /\ sys_steps' = sys_steps + 1
    /\ sys_last'.op \in {"key_mgmt_get_key_metadata", "key_mgmt_rotate_key",
                         "key_mgmt_revoke_key"}
    /\ sys_last'.buf = sys_last.buf

\* C23: after key_mgmt_create_key has returned 0 and written the identifier
\* K to the caller's buffer, K is the identifier stored in the key's
\* metadata, a key_mgmt_get_key_metadata, key_mgmt_rotate_key or
\* key_mgmt_revoke_key called with K next finds that key, and a
\* key_mgmt_get_active_key that returns that key next writes K
C23_CreatedIdFindsKey ==
    [][JustCreated =>
          /\ CString(id_bufs[sys_last.buf]) = g_key_storage.keys[sys_last.found].key_id
          /\ LookupOfLastBuffer
                => (sys_last'.rc = 0 /\ sys_last'.found = sys_last.found)
          /\ (/\ sys_steps' = sys_steps + 1
              /\ sys_last'.op = "key_mgmt_get_active_key"
              /\ sys_last'.rc = 0
              /\ sys_last'.found = sys_last.found)
                => id_bufs'[sys_last'.buf] = id_bufs[sys_last.buf]]_vars

\* the step is a key_mgmt_get_active_key that returns 0
ActiveKeyReturned ==
    /\ sys_steps' = sys_steps + 1
    /\ sys_last'.op = "key_mgmt_get_active_key"
    /\ sys_last'.rc = 0

\* C29: a key for which key_mgmt_revoke_key has returned 0 stays inactive
\* whatever is called afterwards, and a key_mgmt_get_active_key that returns
\* 0 returns a key that was never revoked, is active, has the purpose asked
\* for and has not reached its expiration time
C29_RevocationIsPermanent ==
    [][/\ \A i \in 1..Len(g_key_storage.keys) :
             g_key_storage.keys[i].revoked => ~g_key_storage.keys[i].is_active
       /\ ActiveKeyReturned =>
             LET key == g_key_storage'.keys[sys_last'.found]
             IN /\ ~key.revoked
                /\ key.is_active
                /\ key.purpose = sys_last'.purpose
                /\ now < key.expiration_time
                /\ CString(id_bufs'[sys_last'.buf]) = key.key_id]_vars

\* key_mgmt_get_active_key has returned a key while the store holds a key
\* of the same purpose that was created before it, revoked and then rotated
C29_Witness ==
    /\ sys_last.op = "key_mgmt_get_active_key"
    /\ sys_last.rc = 0
    /\ sys_last.found <= Len(g_key_storage.keys)
    /\ \E i \in 1..Len(g_key_storage.keys) :
          /\ i < sys_last.found
          /\ g_key_storage.keys[i].revoked
          /\ g_key_storage.keys[i].version > 1
          /\ g_key_storage.keys[i].purpose = sys_last.purpose

(***************************************************************************)
(* Claims about what crypto_generate_zkproof hands out.                    *)
(***************************************************************************)
\* the step is a crypto_generate_zkproof that returns 0
ZkproofReturned ==
    /\ cr_steps' = cr_steps + 1
    /\ cr_last'.op = "crypto_generate_zkproof"
    /\ cr_last'.rc = 0

\* qzkp_generate_proof made the commitment, the challenge and the first 32
\* bytes of the response from some non-empty secret and the public input
MadeByEngine(proof, public_input) ==
    \E secret \in Secrets, r \in RandSeeds :
        LET made == QzkpGenerateProof(TRUE, secret, public_input, r)
        IN /\ made # NoProof
           /\ proof.commitment = made.commitment
           /\ proof.challenge = made.challenge
           /\ SubSeq(proof.response, 1, SHA256_DIGEST_LENGTH) = made.response

\* falcon_sign made the signature appended to the response from the proof
\* and the secret key
SignedByFalcon(proof, secret_key) ==
    \E r \in 1..(MaxSeeds + 1) :
        LET unsigned == [proof EXCEPT !.response = SubSeq(@, 1, SHA256_DIGEST_LENGTH)]
        IN proof = SignProof(unsigned, TRUE, secret_key, r)
           /\ FalconSign(TRUE, SHA256(unsigned.commitment \o unsigned.challenge
                                       \o unsigned.response), secret_key, r).rc = 0

\* C24: crypto_generate_zkproof returns 0 only with a proof whose commitment
\* and response the ZKP engine computed from the secret and whose appended
\* signature, when a signature key is given, falcon_sign produced; when
\* qzkp_generate_proof or falcon_sign fails it returns a negative code
C24_ZkproofFailuresReported ==
    [][ZkproofReturned =>
          /\ qzkp_initialized
          /\ MadeByEngine(zk_out'.proof, zk_out'.public_input)
          /\ zk_out'.signed =>
                /\ falcon_initialized
                /\ SignedByFalcon(zk_out'.proof, keys[cr_last'.key].secret_key)]_vars

\* the step is a call that signs with the secret key of keys[1]
SigningStep ==
    /\ cr_steps' = cr_steps + 1
    /\ adapter_state.is_initialized
    /\ keys[1].type = "FALCON"
    /\ cr_last'.key = 1
    /\ cr_last'.op \in {"crypto_sign_message", "crypto_generate_zkproof"}

\* C25: when the expiration time of a signature key is not zero and has
\* passed, crypto_sign_message and crypto_generate_zkproof with that key
\* return the expired-key error, -3, and hand out no signature and no proof
C25_ExpiredKeyNeverSigns ==
    [][(SigningStep /\ KeyExpired(keys[1], now))
          => (cr_last'.rc = -3 /\ UNCHANGED <<sig_out, zk_out>>)]_vars

(***************************************************************************)
(* Claims about the memory behind a key.                                   *)
(***************************************************************************)
\* C26: no call of crypto_free_key gives free() a block that was given to it
\* before, and after a crypto_generate_key that returned an error the key's
\* key_id is NULL, not a pointer to a block already freed
C26_NoDoubleFree ==
    /\ \A i \in 1..Len(cr_last.released) : ~cr_last.released[i].again
    /\ (cr_last.op = "crypto_generate_key" /\ cr_last.rc < 0 /\ cr_last.rc # -1)
          => keys[cr_last.key].key_id_ptr = "null"

(***************************************************************************)
(* Claims about the init flags of the layers.                              *)
(***************************************************************************)
\* C27: whatever public init and cleanup functions have been called, an
\* adapter initialized with use_pq_crypto = true has the ZKP, KEM and
\* signature layers initialized, and hydra_initialized implies that the
\* adapter is initialized
C27_LifecycleInvariant ==
    /\ (adapter_state.is_initialized /\ adapter_state.use_pq_crypto)
          => (qzkp_initialized /\ kyber_initialized /\ falcon_initialized)
    /\ hydra_initialized => adapter_state.is_initialized

(***************************************************************************)
(* Claims about what a key encapsulation reveals.                          *)
(***************************************************************************)
\* the bytes 1, 2, ..., 32, known to everyone who reads kyber.c
PublishedBytes ==
    <<1, 2, 3, 4, 5, 6, 7, 8, 9, 10, 11, 12, 13, 14, 15, 16,
      17, 18, 19, 20, 21, 22, 23, 24, 25, 26, 27, 28, 29, 30, 31, 32>>

\* the step is a kyber_encapsulate that returns 0
Encapsulated ==
    /\ cr_steps' = cr_steps + 1
    /\ cr_last'.op = "kyber_encapsulate"
    /\ cr_last'.rc = 0

====
